---- MODULE Spec2Model ----
(***************************************************************************)
(* Verification model of the mttl adapter library:                         *)
(*   - mttl/models/modifiers/lora.py        (LoRA adapter primitive)        *)
(*   - mttl/models/library/library_transforms.py (library transforms)       *)
(* Tensors are matrices of integers (tuples of rows); where the code        *)
(* divides, the quotient is kept as an exact fraction [num, den].           *)
(***************************************************************************)
EXTENDS Integers, Sequences, FiniteSets, TLC

(***************************************************************************)
(* Bounds                                                                  *)
(***************************************************************************)
\* how many times merge_with_layer may be called on one adapter
MaxMerges == 2

\* layer shapes <<in_features, out_features>> that are explored
Shapes == {<<1, 2>>, <<2, 1>>, <<2, 2>>}

\* values of the entries of lora_a / lora_b and of the forward inputs
ParamVals == {0, 1}

\* LoRAConfig instances explored: scaling = lora_alpha / lora_rank is exact
LoRAConfigs ==
  {[lora_rank |-> 1, lora_alpha |-> 1, lora_init_b_random |-> FALSE],
   [lora_rank |-> 1, lora_alpha |-> 2, lora_init_b_random |-> FALSE],
   [lora_rank |-> 1, lora_alpha |-> 2, lora_init_b_random |-> TRUE]}

(***************************************************************************)
(* Matrix algebra (matmul, transpose, sum, scalar product) on row tuples   *)
(***************************************************************************)
RECURSIVE SumTo(_, _)
SumTo(f, n) == IF n = 0 THEN 0 ELSE f[n] + SumTo(f, n - 1)

Matrices(r, c, vals) == [1..r -> [1..c -> vals]]

ZeroMatrix(r, c) == [i \in 1..r |-> [j \in 1..c |-> 0]]

MatMul(X, Y) ==
  [i \in 1..Len(X) |->
     [j \in 1..Len(Y[1]) |->
        SumTo([k \in 1..Len(Y) |-> X[i][k] * Y[k][j]], Len(Y))]]

Transpose(X) == [j \in 1..Len(X[1]) |-> [i \in 1..Len(X) |-> X[i][j]]]

MatAdd(X, Y) == [i \in 1..Len(X) |-> [j \in 1..Len(X[1]) |-> X[i][j] + Y[i][j]]]

MatScale(X, s) == [i \in 1..Len(X) |-> [j \in 1..Len(X[1]) |-> X[i][j] * s]]

(***************************************************************************)
(* State of one LoRA attached to one nn.Linear                             *)
(***************************************************************************)
VARIABLES
  config,             \* LoRAConfig of the adapter
  in_features,        \* layer.in_features
  out_features,       \* layer.out_features
  weight,             \* layer.weight, out_features x in_features
  lora_a,             \* in_features x rank
  lora_b,             \* rank x out_features
  merged_with_layer,
  enabled,            \* self._enabled
  merge_calls,        \* number of merge_with_layer() calls so far
  b_written,          \* lora_b has been overwritten since construction
  ret                 \* return value of the most recent call

loraVars == <<config, in_features, out_features, weight, lora_a, lora_b,
              merged_with_layer, enabled, merge_calls, b_written, ret>>

\* a library of experts and one transform invocation over it
VARIABLES
  library,            \* the experts, in the order library.keys() lists them
  transform_config,   \* the config of the transform that is invoked
  result              \* what transform() returned or raised

libVars == <<library, transform_config, result>>

\* the optimisation loop of WudiMergeAfter / WudiMerge / WuDiMerge2
VARIABLES
  loop_class,         \* the transform whose loop is running
  loop_iter,          \* config.iter, the iteration budget
  step,               \* optimizer steps performed so far
  prev_loss,
  no_improve_count,
  losses,             \* the loss observed at each step so far
  loop_pc             \* "running" or "done"

loopVars == <<loop_class, loop_iter, step, prev_loss, no_improve_count,
              losses, loop_pc>>

\* a library with auxiliary data and the transforms that cache in it
VARIABLES
  cache_transform,    \* the transform under study
  lib_experts,        \* expert name -> version of its weights
  aux_data,           \* auxiliary data under the save name: name -> payload
  calls,              \* number of fetch / transform calls so far
  outcome             \* arguments and result of the most recent call

cacheVars == <<cache_transform, lib_experts, aux_data, calls, outcome>>

\* a library and the transforms that persist prototypes as auxiliary data
VARIABLES
  pt_transform,       \* the persisting transform under study
  pt_config,          \* its config
  pt_library,         \* the experts, in the order library.keys() lists them
  store,              \* the auxiliary data the library holds
  invocations,        \* number of transform() invocations so far
  last                \* arguments, commit scopes and result of the latest one

persistVars == <<pt_transform, pt_config, pt_library, store, invocations,
                 last>>

\* two LibraryTransformConfig instances of one class and their save names
VARIABLES
  cfg_p,
  cfg_q,
  save_names          \* <<cfg_p.save_name, cfg_q.save_name>> once evaluated

hashVars == <<cfg_p, cfg_q, save_names>>

\* the objects of a library in memory and one merge or projection call
VARIABLES
  heap,               \* the Expert, config and tensor objects by address
  lib_addrs,          \* the addresses of the library's experts, in order
  frame_config,       \* the transform that is called and its config
  frame_ret           \* what the call returned or raised

heapVars == <<heap, lib_addrs, frame_config, frame_ret>>

\* a list of adapters handed to one of the parallel entry points
VARIABLES
  par_entry,          \* the classmethod that is called
  par_loras,          \* the adapters of the list
  par_weights,        \* layer id -> weight of that nn.Linear
  par_input,          \* the batch and, for skilled adapters, the weights
  par_merges,         \* number of merge_with_layer() calls so far
  par_ret             \* what the most recent call returned or raised

parVars == <<par_entry, par_loras, par_weights, par_input, par_merges,
             par_ret>>

\* one SkilledLoRA on a layer with n_splits input and output features,
\* rank 1
VARIABLES
  sk_config,          \* SkilledLoRAConfig: n_splits and the scaling
  sk_n_skills,        \* self.n_skills
  sk_lora_a,          \* lora_a[skill][split]
  sk_lora_b,          \* lora_b[skill][split]
  sk_enabled,
  sk_training_steps,
  sk_calls,           \* number of calls so far
  sk_ret              \* arguments and result of the most recent call

skVars == <<sk_config, sk_n_skills, sk_lora_a, sk_lora_b, sk_enabled,
            sk_training_steps, sk_calls, sk_ret>>

\* ArrowTransform extracting the prototype of one layer of one expert:
\* in_features 2, rank 2, out_features 2
VARIABLES
  ar_config,          \* ArrowTransformConfig: ab_only and scale
  ar_A,               \* expert_weights[lora_a], in_features x rank
  ar_B,               \* expert_weights[lora_b], rank x out_features
  ar_vectors,         \* the (vector, value) recorded in vectors / eigvals
  ar_store,           \* the auxiliary data the library holds for the layer
  ar_calls,           \* number of transform() calls so far
  ar_ret              \* arguments and result of the most recent call

arVars == <<ar_config, ar_A, ar_B, ar_vectors, ar_store, ar_calls, ar_ret>>

\* a SkilledLoRA, a list of LoRAs and the tensor storages their factors
\* live in; in_features, out_features, rank and n_splits are 1
VARIABLES
  vw_heap,            \* storage id -> the values the storage holds
  vw_skilled,         \* the SkilledLoRA: storages of lora_a, lora_b; n_skills
  vw_loras,           \* the LoRAs: storage and offset of lora_a and lora_b
  vw_mode,            \* which of the two was created as a view of the other
  vw_ops              \* number of operations so far

vwVars == <<vw_heap, vw_skilled, vw_loras, vw_mode, vw_ops>>

vars == <<loraVars, libVars, loopVars, cacheVars, persistVars, hashVars,
          heapVars, parVars, skVars, arVars, vwVars>>

\* the variables each component leaves alone
notLoRA == <<libVars, loopVars, cacheVars, persistVars, hashVars, heapVars,
  parVars, skVars, arVars, vwVars>>

notLib == <<loraVars, loopVars, cacheVars, persistVars, hashVars, heapVars,
  parVars, skVars, arVars, vwVars>>

notLoop == <<loraVars, libVars, cacheVars, persistVars, hashVars, heapVars,
  parVars, skVars, arVars, vwVars>>

notCache == <<loraVars, libVars, loopVars, persistVars, hashVars, heapVars,
  parVars, skVars, arVars, vwVars>>

notPersist == <<loraVars, libVars, loopVars, cacheVars, hashVars, heapVars,
  parVars, skVars, arVars, vwVars>>

notHash == <<loraVars, libVars, loopVars, cacheVars, persistVars, heapVars,
  parVars, skVars, arVars, vwVars>>

notHeap == <<loraVars, libVars, loopVars, cacheVars, persistVars, hashVars,
  parVars, skVars, arVars, vwVars>>

notPar == <<loraVars, libVars, loopVars, cacheVars, persistVars, hashVars,
  heapVars, skVars, arVars, vwVars>>

notSk == <<loraVars, libVars, loopVars, cacheVars, persistVars, hashVars,
  heapVars, parVars, arVars, vwVars>>

notAr == <<loraVars, libVars, loopVars, cacheVars, persistVars, hashVars,
  heapVars, parVars, skVars, vwVars>>

notVw == <<loraVars, libVars, loopVars, cacheVars, persistVars, hashVars,
  heapVars, parVars, skVars, arVars>>

None == [kind |-> "None"]

\* self.scaling = self.alpha / self.rank
scaling == config.lora_alpha \div config.lora_rank

\* the base weight the layer is created with (not symmetric when square)
InitialWeight(nin, nout) == [i \in 1..nout |-> [j \in 1..nin |-> i - 2 * j]]

\* inputs: one batch row of in_features entries
Inputs == Matrices(1, in_features, ParamVals)

\* self.layer(input) of a bias-free nn.Linear: input @ weight.T
LayerOut(w, x) == MatMul(x, Transpose(w))

\* the low-rank term of forward: (input @ lora_a @ lora_b) * scaling
AdapterOut(x) == MatScale(MatMul(MatMul(x, lora_a), lora_b), scaling)

ForwardIgnoringEnabled(x) ==
  IF merged_with_layer
    THEN LayerOut(weight, x)
    ELSE MatAdd(LayerOut(weight, x), AdapterOut(x))

\* LoRA.forward (dropout 0: dropout_layer is the identity)
Forward(x) ==
  IF merged_with_layer \/ ~enabled
    THEN LayerOut(weight, x)
    ELSE MatAdd(LayerOut(weight, x), AdapterOut(x))

\* the delta merge_with_layer adds to layer.weight
ToMerge ==
  LET ab == MatMul(lora_a, lora_b)
      oriented == IF Len(lora_a) = Len(weight) THEN ab ELSE Transpose(ab)
  IN  MatScale(oriented, scaling)

ResetParametersAlwaysRandom(nin, nout, cfg, a, b) ==
  /\ a \in Matrices(nin, cfg.lora_rank, ParamVals)
  /\ b \in Matrices(cfg.lora_rank, nout, ParamVals)

\* LoRA.reset_parameters: lora_a uniform, lora_b zero unless init_b_random
ResetParameters(nin, nout, cfg, a, b) ==
  /\ a \in Matrices(nin, cfg.lora_rank, ParamVals)
  /\ IF cfg.lora_init_b_random
       THEN b \in Matrices(cfg.lora_rank, nout, ParamVals)
       ELSE b = ZeroMatrix(cfg.lora_rank, nout)

\* LoRA.__init__
LoRAInit ==
  /\ config \in LoRAConfigs
  /\ \E shape \in Shapes :
       /\ in_features = shape[1]
       /\ out_features = shape[2]
  /\ weight = InitialWeight(in_features, out_features)
  /\ lora_a \in Matrices(in_features, config.lora_rank, ParamVals)
  /\ lora_b \in Matrices(config.lora_rank, out_features, ParamVals)
  /\ ResetParameters(in_features, out_features, config, lora_a, lora_b)
  /\ merged_with_layer = FALSE
  /\ enabled = TRUE
  /\ merge_calls = 0
  /\ b_written = FALSE
  /\ ret = None

\* LoRA.enable
Enable ==
  /\ enabled' = TRUE
  /\ ret' = None
  /\ UNCHANGED <<config, in_features, out_features, weight, lora_a, lora_b,
                 merged_with_layer, merge_calls, b_written>>
  /\ UNCHANGED notLoRA

\* LoRA.disable
Disable ==
  /\ enabled' = FALSE
  /\ ret' = None
  /\ UNCHANGED <<config, in_features, out_features, weight, lora_a, lora_b,
                 merged_with_layer, merge_calls, b_written>>
  /\ UNCHANGED notLoRA

\* LoRA.load_lora_weights(state_dict)
LoadLoraWeights(sd) ==
  /\ lora_a' = sd.lora_a
  /\ lora_b' = sd.lora_b
  /\ b_written' = TRUE
  /\ ret' = None
  /\ UNCHANGED <<config, in_features, out_features, weight,
                 merged_with_layer, enabled, merge_calls>>
  /\ UNCHANGED notLoRA

\* LoRA.merge_with_layer (unquantized branch)
MergeWithLayer ==
  /\ merge_calls < MaxMerges
  /\ merged_with_layer' = TRUE
  /\ weight' = MatAdd(weight, ToMerge)
  /\ merge_calls' = merge_calls + 1
  /\ ret' = None
  /\ UNCHANGED <<config, in_features, out_features, lora_a, lora_b,
                 enabled, b_written>>
  /\ UNCHANGED notLoRA

\* a call of LoRA.forward(input); the output is what the caller receives
ForwardCall(x) ==
  /\ ret' = [kind |-> "forward", input |-> x, output |-> Forward(x),
             layer_out |-> LayerOut(weight, x)]
  /\ UNCHANGED <<config, in_features, out_features, weight, lora_a, lora_b,
                 merged_with_layer, enabled, merge_calls, b_written>>
  /\ UNCHANGED notLoRA

StateDicts ==
  [lora_a : Matrices(in_features, config.lora_rank, ParamVals),
   lora_b : Matrices(config.lora_rank, out_features, ParamVals)]

LoRANext ==
  \/ Enable
  \/ Disable
  \/ \E sd \in StateDicts : LoadLoraWeights(sd)
  \/ MergeWithLayer
  \/ \E x \in Inputs : ForwardCall(x)


(***************************************************************************)
(* Exact arithmetic on fractions <<num, den>>, den > 0, in lowest terms    *)
(***************************************************************************)
Abs(n) == IF n < 0 THEN 0 - n ELSE n

RECURSIVE Gcd(_, _)
Gcd(a, b) == IF b = 0 THEN a ELSE Gcd(b, a % b)

Frac(n, d) ==
  LET g == Gcd(Abs(n), Abs(d))
      s == IF d < 0 THEN 0 - 1 ELSE 1
  IN  <<(s * n) \div g, (s * d) \div g>>

R(n) == <<n, 1>>

RAdd(x, y) == Frac(x[1] * y[2] + y[1] * x[2], x[2] * y[2])

RSub(x, y) == Frac(x[1] * y[2] - y[1] * x[2], x[2] * y[2])

RMul(x, y) == Frac(x[1] * y[1], x[2] * y[2])

RDiv(x, y) == Frac(x[1] * y[2], x[2] * y[1])

RLess(x, y) == x[1] * y[2] < y[1] * x[2]

RGeq(x, y) == ~RLess(x, y)

RAbs(x) == <<Abs(x[1]), x[2]>>

RSign(x) == IF x[1] > 0 THEN 1 ELSE IF x[1] < 0 THEN 0 - 1 ELSE 0

\* elementwise operations on tensors (flat tuples of fractions)
TAdd(t, u) == [i \in 1..Len(t) |-> RAdd(t[i], u[i])]

TScale(t, w) == [i \in 1..Len(t) |-> RMul(t[i], w)]

TDiv(t, w) == [i \in 1..Len(t) |-> RDiv(t[i], w)]

(***************************************************************************)
(* The expert library and the merge transforms                             *)
(***************************************************************************)
\* largest number of experts in a library
MaxExperts == 2

\* shape of each parameter tensor: a vector of one element
TensorShape == <<1>>

TensorLen == TensorShape[1]

\* parameter paths of an expert, in state-dict order
KeyOrder == <<"layer.lora_a", "layer.lora_b">>

AllKeys == {KeyOrder[i] : i \in 1..Len(KeyOrder)}

\* values of the elements of the experts' tensors
WeightVals == {0 - 1, 0, 2}

\* the tie_params of the experts' training config
TieParams == {"None", "q_proj.*\\.lora_a"}

ExpertNames == <<"e1", "e2", "e3", "e4", "e5">>

Tensors == [1..TensorLen -> {R(v) : v \in WeightVals}]

\* the experts that may sit at position i of a library of LoRA experts
ExpertsAt(i, tie) ==
  [name : {ExpertNames[i]},
   expert_config : {[type |-> "LoRAConfig", tie_params |-> tie]},
   expert_weights : [AllKeys -> Tensors]]

RECURSIVE LibrariesOfLen(_, _)
LibrariesOfLen(n, tie) ==
  IF n = 0 THEN {<<>>}
  ELSE {Append(l, e) : l \in LibrariesOfLen(n - 1, tie), e \in ExpertsAt(n, tie)}

\* at most one expert of a library deviates from the others: it has another
\* config type, or its weight mapping lacks a key
Deviations(n) ==
  {[at |-> 0, kind |-> "none"]}
  \cup [at : 1..n, kind : {"config_type", "missing_key"}]

WithDeviation(lib, d) ==
  [i \in 1..Len(lib) |->
     IF i # d.at THEN lib[i]
     ELSE IF d.kind = "config_type"
       THEN [lib[i] EXCEPT !.expert_config.type = "SkilledLoRAConfig"]
       ELSE [lib[i] EXCEPT !.expert_weights =
               [k \in {"layer.lora_a"} |-> lib[i].expert_weights[k]]]]

Libraries ==
  UNION {{WithDeviation(l, d) : l \in LibrariesOfLen(n, tie), d \in Deviations(n)} :
           n \in 0..MaxExperts, tie \in TieParams}

Names(experts) == {experts[i].name : i \in 1..Len(experts)}

\* list(expert_weights.keys()): the keys of a weight mapping in dict order
KeysOf(weights) ==
  SelectSeq(KeyOrder, LAMBDA k : k \in DOMAIN weights)

Raised(exc) == [kind |-> "result", status |-> exc]

Returned(value) == [kind |-> "result", status |-> "ok", value |-> value]

\* WeightedLinearMergeConfig instances: weights is None or maps names to
\* per-expert weights
WeightMappingVals == {<<1, 2>>, <<1, 1>>}

WeightedLinearMergeConfigs(lib) ==
  {[kind |-> "weighted_linear_merge", weights |-> None]}
  \cup {[kind |-> "weighted_linear_merge",
         weights |-> [kind |-> "dict", items |-> w]] :
          w \in [Names(lib) -> WeightMappingVals]
                \cup {[n \in Names(lib) \cup {ExpertNames[Len(lib) + 1]} |-> <<1, 2>>]}}

ExpertWeightOne(cfg, name) == R(1)

\* the factor an expert's tensors are multiplied by (lines 756-758)
ExpertWeight(cfg, name) ==
  IF cfg.weights.kind = "None" THEN R(1) ELSE cfg.weights.items[name]

\* lines 747-761: validate expert i and add its weighted tensors to base
RECURSIVE WLMAccumulate(_, _, _, _)
WLMAccumulate(base, experts, i, cfg) ==
  IF i > Len(experts) THEN Returned(base)
  ELSE
    LET expert == experts[i] IN
    IF expert.expert_config.type # base.expert_config.type
      THEN Raised("AssertionError")
    ELSE IF DOMAIN expert.expert_weights # DOMAIN base.expert_weights
      THEN Raised("AssertionError")
    ELSE
      WLMAccumulate(
        [base EXCEPT !.expert_weights =
           [k \in DOMAIN base.expert_weights |->
              TAdd(base.expert_weights[k],
                   TScale(expert.expert_weights[k],
                          ExpertWeight(cfg, expert.name)))]],
        experts, i + 1, cfg)

WLMNormalizeByOne(base, experts, cfg) == base

\* lines 763-766: divide by the number of experts when no weights are given
WLMNormalize(base, experts, cfg) ==
  IF cfg.weights.kind = "None"
    THEN [base EXCEPT !.expert_weights =
            [k \in DOMAIN base.expert_weights |->
               TDiv(base.expert_weights[k], R(Len(experts)))]]
    ELSE base

WLMTransformFirstOnly(experts, cfg) ==
  IF Len(experts) = 0 THEN Raised("IndexError")
  ELSE Returned([experts[1] EXCEPT !.name = "weighted_expert",
                                   !.expert_config.tie_params = "None"])

\* WeightedLinearMerge.transform
WLMTransform(experts, cfg) ==
  IF Len(experts) = 0 THEN Raised("IndexError")
  ELSE IF cfg.weights.kind # "None" /\ DOMAIN cfg.weights.items # Names(experts)
    THEN Raised("AssertionError")
  ELSE
    LET copy == [experts[1] EXCEPT !.name = "weighted_expert"]
        base == IF cfg.weights.kind = "None" THEN copy
                ELSE [copy EXCEPT !.expert_weights =
                        [k \in DOMAIN copy.expert_weights |->
                           TScale(copy.expert_weights[k],
                                  cfg.weights.items[experts[1].name])]]
        acc  == WLMAccumulate(base, experts, 2, cfg)
    IN  IF acc.status # "ok" THEN acc
        ELSE Returned([WLMNormalize(acc.value, experts, cfg)
                         EXCEPT !.expert_config.tie_params = "None"])

\* TiesMergeConfig instances: top_k as an exact fraction
TopKs == {<<1, 1>>, <<1, 2>>, <<1, 5>>}

TiesMergeConfigs ==
  [kind : {"ties_merge"}, top_k : TopKs, only_sparsify : BOOLEAN]

\* the tolerance of the kept-fraction assertion (line 993)
KeptFractionTolerance == <<1, 10000>>

\* torch.stack: the rows f[1], ..., f[n] as one materialised tensor
RECURSIVE Stack(_, _)
Stack(f, n) == IF n = 0 THEN <<>> ELSE Append(Stack(f, n - 1), f[n])

RECURSIVE SumSeq(_)
SumSeq(s) == IF Len(s) = 0 THEN R(0) ELSE RAdd(s[1], SumSeq(Tail(s)))

RECURSIVE SortAscending(_)
SortAscending(s) ==
  IF Len(s) = 0 THEN <<>>
  ELSE LET m == CHOOSE i \in 1..Len(s) :
                  \A j \in 1..Len(s) : ~RLess(s[j], s[i])
           rest == [j \in 1..Len(s) - 1 |-> IF j < m THEN s[j] ELSE s[j + 1]]
       IN  <<s[m]>> \o SortAscending(rest)

\* torch.quantile(q) of a vector, linear interpolation between the two
\* order statistics around q * (n - 1)
Quantile(v, q) ==
  LET sorted == SortAscending(v)
      pos == RMul(q, R(Len(v) - 1))
      lo == pos[1] \div pos[2]
      hi == IF lo * pos[2] = pos[1] THEN lo ELSE lo + 1
      frac == RSub(pos, R(lo))
  IN  RAdd(sorted[lo + 1],
           RMul(frac, RSub(sorted[hi + 1], sorted[lo + 1])))

\* torch.nn.utils.parameters_to_vector over the tensors of keys
RECURSIVE Flatten(_, _)
Flatten(weights, keys) ==
  IF Len(keys) = 0 THEN <<>>
  ELSE weights[keys[1]] \o Flatten(weights, Tail(keys))

TAbs(t) == [i \in 1..Len(t) |-> RAbs(t[i])]

KeepStrictlyAbove(w, th) == RLess(th, RAbs(w))

\* keep_mask: a value survives the trim when its magnitude is >= TH
Keep(w, th) == RGeq(RAbs(w), th)

\* merge_param with the elected sum divided by the number of experts
MergeParamMeanOverExperts(cfg, TH, stack) ==
  LET n == Len(stack)
      len == Len(stack[1])
      trimmed == Stack([e \in 1..n |->
                          Stack([i \in 1..len |->
                                   IF Keep(stack[e][i], TH[e])
                                     THEN stack[e][i] ELSE R(0)], len)], n)
      column(i) == [e \in 1..n |-> trimmed[e][i]]
      sign_per_dim == [i \in 1..len |-> RSign(SumSeq(column(i)))]
      use_for_avg == [e \in 1..n |->
                        [i \in 1..len |->
                           RSign(trimmed[e][i]) = sign_per_dim[i]]]
      sum_param(i) ==
        SumSeq([e \in 1..n |->
                  IF use_for_avg[e][i] THEN trimmed[e][i] ELSE R(0)])
  IN  [final_param |->
         [i \in 1..len |->
            IF cfg.only_sparsify
              THEN RDiv(SumSeq(column(i)), R(n))
              ELSE RDiv(sum_param(i), R(n))],
       used |->
         Cardinality({<<e, i>> \in (1..n) \X (1..len) :
                        Keep(stack[e][i], TH[e])}),
       expert_weights |-> trimmed]

\* TiesMerge.merge_param: TH[e] is the threshold of expert e, stack[e] the
\* tensor of expert e
MergeParam(cfg, TH, stack) ==
  LET n == Len(stack)
      len == Len(stack[1])
      trimmed == Stack([e \in 1..n |->
                          Stack([i \in 1..len |->
                                   IF Keep(stack[e][i], TH[e])
                                     THEN stack[e][i] ELSE R(0)], len)], n)
      column(i) == [e \in 1..n |-> trimmed[e][i]]
      sign_per_dim == [i \in 1..len |-> RSign(SumSeq(column(i)))]
      use_for_avg == [e \in 1..n |->
                        [i \in 1..len |->
                           RSign(trimmed[e][i]) = sign_per_dim[i]]]
      deno(i) == LET c == Cardinality({e \in 1..n : use_for_avg[e][i]})
                 IN  IF c < 1 THEN 1 ELSE c
      sum_param(i) ==
        SumSeq([e \in 1..n |->
                  IF use_for_avg[e][i] THEN trimmed[e][i] ELSE R(0)])
  IN  IF cfg.only_sparsify
        THEN [final_param |->
                [i \in 1..len |-> RDiv(SumSeq(column(i)), R(n))],
              used |->
                Cardinality({<<e, i>> \in (1..n) \X (1..len) :
                               Keep(stack[e][i], TH[e])}),
              expert_weights |-> trimmed]
        ELSE [final_param |->
                [i \in 1..len |-> RDiv(sum_param(i), R(deno(i)))],
              used |->
                Cardinality({<<e, i>> \in (1..n) \X (1..len) :
                               use_for_avg[e][i] /\ sign_per_dim[i] # 0}),
              expert_weights |-> trimmed]

\* lines 989-993: the realized kept fraction of every expert is within the
\* tolerance of top_k
KeptFractionAsserted(cfg, vectors, per_exp_th) ==
  \A e \in 1..Len(vectors) :
    LET kept == Cardinality({i \in 1..Len(vectors[e]) :
                               Keep(vectors[e][i], per_exp_th[e])})
        mean_valid == Frac(kept, Len(vectors[e]))
    IN  RLess(RAbs(RSub(mean_valid, cfg.top_k)), KeptFractionTolerance)

\* TiesMerge.transform
TiesTransform(experts, cfg) ==
  IF Len(experts) = 0 THEN Raised("IndexError")
  ELSE
    LET keys == KeysOf(experts[1].expert_weights)
        keyset == DOMAIN experts[1].expert_weights
    IN
    IF \E e \in 1..Len(experts) : ~(keyset \subseteq DOMAIN experts[e].expert_weights)
      THEN Raised("KeyError")
    ELSE
      LET n == Len(experts)
          vectors == Stack([e \in 1..n |->
                              Flatten(experts[e].expert_weights, keys)], n)
          per_exp_th == Stack([e \in 1..n |->
                                 Quantile(TAbs(vectors[e]),
                                          RSub(R(1), cfg.top_k))], n)
          merged == Stack([j \in 1..Len(keys) |->
                             MergeParam(cfg, per_exp_th,
                                        Stack([e \in 1..n |->
                                                 experts[e].expert_weights[keys[j]]],
                                              n))], Len(keys))
          kept == Cardinality(
                    {<<j, e, i>> \in (1..Len(keys)) \X (1..n) \X (1..TensorLen) :
                       KeepStrictlyAbove(merged[j].expert_weights[e][i],
                                         per_exp_th[e])})
          used == SumTo([j \in 1..Len(keys) |-> merged[j].used], Len(keys))
      IN
      IF ~KeptFractionAsserted(cfg, vectors, per_exp_th)
        THEN Raised("AssertionError")
        ELSE [kind |-> "result", status |-> "ok",
              value |-> [name |-> "ties_weighted_expert",
                         expert_config |->
                           [experts[1].expert_config EXCEPT !.tie_params = "None"],
                         expert_weights |->
                           [k \in keyset |->
                              LET j == CHOOSE jj \in 1..Len(keys) : keys[jj] = k
                              IN  merged[j].final_param]],
              log |-> [kept |-> kept, used |-> used,
                       total |-> n * Len(keys) * TensorLen],
              per_exp_th |-> per_exp_th]

\* the state while no transform is under study
LibIdle ==
  /\ library = <<>>
  /\ transform_config = None
  /\ result = None

MergeInit ==
  /\ library \in Libraries
  /\ transform_config \in WeightedLinearMergeConfigs(library) \cup TiesMergeConfigs
  /\ result = None

\* one call of WeightedLinearMerge(config).transform(library)
WeightedLinearMergeCall ==
  /\ result.kind = "None"
  /\ transform_config.kind = "weighted_linear_merge"
  /\ result' = WLMTransform(library, transform_config)
  /\ UNCHANGED <<library, transform_config>>
  /\ UNCHANGED notLib

\* one call of TiesMerge(config).transform(library)
TiesMergeCall ==
  /\ result.kind = "None"
  /\ transform_config.kind = "ties_merge"
  /\ result' = TiesTransform(library, transform_config)
  /\ UNCHANGED <<library, transform_config>>
  /\ UNCHANGED notLib

MergeNext ==
  \/ WeightedLinearMergeCall
  \/ TiesMergeCall

(***************************************************************************)
(* The early-stopping loop of the iterative merges                         *)
(***************************************************************************)
\* largest iteration budget (config.iter) explored
MaxIter == 7

\* patience = 5
Patience == 5

\* min_delta = 1e-4
MinDelta == <<1, 10000>>

\* float("inf")
Inf == <<1, 0>>

\* the values loss.item() may take at a step
LossVals == {R(0), <<1, 20000>>, R(1)}

LoopClasses == {"WudiMergeAfter", "WudiMerge", "WuDiMerge2"}

\* the negation of abs(prev_loss - loss.item()) < min_delta
SignificantChange(prev, loss) ==
  IF prev = Inf THEN TRUE ELSE RGeq(RAbs(RSub(prev, loss)), MinDelta)

LoopIdle ==
  /\ loop_class = "None"
  /\ loop_iter = 0
  /\ step = 0
  /\ prev_loss = Inf
  /\ no_improve_count = 0
  /\ losses = <<>>
  /\ loop_pc = "idle"

\* the state on entry to `for step in pbar`
LoopInit ==
  /\ loop_class \in LoopClasses
  /\ loop_iter \in 0..MaxIter
  /\ step = 0
  /\ prev_loss = Inf
  /\ no_improve_count = 0
  /\ losses = <<>>
  /\ loop_pc = IF loop_iter = 0 THEN "done" ELSE "running"

\* one iteration of the loop body: the optimizer steps on a loss of value
\* loss, then the early-stopping test runs
OptimizerStep(loss) ==
  /\ loop_pc = "running"
  /\ step < loop_iter
  /\ step' = step + 1
  /\ losses' = Append(losses, loss)
  /\ LET count == IF SignificantChange(prev_loss, loss)
                    THEN 0 ELSE no_improve_count + 1
     IN  /\ no_improve_count' = count
         /\ IF count >= Patience
              THEN /\ loop_pc' = "done"
                   /\ prev_loss' = prev_loss
              ELSE /\ loop_pc' = IF step + 1 = loop_iter THEN "done" ELSE "running"
                   /\ prev_loss' = loss
  /\ UNCHANGED <<loop_class, loop_iter>>
  /\ UNCHANGED notLoop

LoopNext ==
  \/ \E loss \in LossVals : OptimizerStep(loss)

(***************************************************************************)
(* Cached auxiliary data: SVDEmbeddingTransform and HiddenStateComputer    *)
(***************************************************************************)
\* largest number of experts in the library with auxiliary data
MaxCacheExperts == 3

\* how many fetch / transform calls are explored
MaxCalls == 3

\* how many times an expert's weights may be replaced
MaxVersion == 1

CacheTransforms == {"svd_embedding", "hidden_state_computer"}

CacheNames == {ExpertNames[i] : i \in 1..MaxCacheExperts}

\* the data computed for an expert from its current weights
Payload(name) == [expert |-> name, version |-> lib_experts[name]]

EmptyMapping == [n \in {} |-> None]

SVDEmbeddingFetchWhenNonEmpty(experts, aux) ==
  IF Cardinality(DOMAIN aux) > 0
    THEN Returned(aux)
    ELSE Raised("ValueError")

\* SVDEmbeddingTransform.fetch: len(output) == len(library)
SVDEmbeddingFetch(experts, aux) ==
  IF Cardinality(DOMAIN aux) = Cardinality(DOMAIN experts)
    THEN Returned(aux)
    ELSE Raised("ValueError")

\* HiddenStateComputer.fetch: len(output) > 0
HiddenStateFetch(experts, aux) ==
  IF Cardinality(DOMAIN aux) > 0
    THEN Returned(aux)
    ELSE Raised("ValueError")

\* self.fetch(library, self.config.save_name) of the transform under study
Fetch(transform, experts, aux) ==
  IF transform = "svd_embedding"
    THEN SVDEmbeddingFetch(experts, aux)
    ELSE HiddenStateFetch(experts, aux)

\* the exception a failing computation raises: the sparsity assertion of
\* SVDEmbeddingTransform, an unsupported pool mode in HiddenStateComputer
ComputeError(transform) ==
  IF transform = "svd_embedding" THEN "AssertionError" ELSE "NotImplementedError"

\* add_auxiliary_data(..., force=True) for every computed entry, inside one
\* batched_commit
Persist(aux, computed) ==
  [n \in DOMAIN aux \cup DOMAIN computed |->
     IF n \in DOMAIN computed THEN computed[n] ELSE aux[n]]

CacheIdle ==
  /\ cache_transform = "None"
  /\ lib_experts = EmptyMapping
  /\ aux_data = EmptyMapping
  /\ calls = 0
  /\ outcome = None

CacheInit ==
  /\ cache_transform \in CacheTransforms
  /\ \E names \in SUBSET CacheNames : lib_experts = [n \in names |-> 0]
  /\ aux_data = EmptyMapping
  /\ calls = 0
  /\ outcome = None

\* library.add_expert: a new expert joins the library
AddExpert(name) ==
  /\ name \notin DOMAIN lib_experts
  /\ lib_experts' = [n \in DOMAIN lib_experts \cup {name} |->
                       IF n = name THEN 0 ELSE lib_experts[n]]
  /\ outcome' = None
  /\ UNCHANGED <<cache_transform, aux_data, calls>>
  /\ UNCHANGED notCache

\* an expert of the library is replaced by a retrained one
ReplaceExpert(name) ==
  /\ name \in DOMAIN lib_experts
  /\ lib_experts[name] < MaxVersion
  /\ lib_experts' = [lib_experts EXCEPT ![name] = @ + 1]
  /\ outcome' = None
  /\ UNCHANGED <<cache_transform, aux_data, calls>>
  /\ UNCHANGED notCache

\* one call of the classmethod fetch(library, save_name)
FetchCall ==
  /\ calls < MaxCalls
  /\ calls' = calls + 1
  /\ LET fetched == Fetch(cache_transform, lib_experts, aux_data)
     IN  outcome' = [kind |-> "call", op |-> "fetch", persist |-> FALSE,
                     recompute |-> FALSE, status |-> fetched.status,
                     value |-> IF fetched.status = "ok"
                                 THEN fetched.value ELSE EmptyMapping,
                     computed |-> {}]
  /\ UNCHANGED <<cache_transform, lib_experts, aux_data>>
  /\ UNCHANGED notCache

\* one call of transform(library, persist, recompute); compute_ok tells
\* whether the computation over the experts' weights succeeds
TransformCall(persist, recompute, compute_ok) ==
  /\ calls < MaxCalls
  /\ calls' = calls + 1
  /\ LET fetched == Fetch(cache_transform, lib_experts, aux_data)
         fresh == [n \in DOMAIN lib_experts |-> Payload(n)]
     IN  IF fetched.status = "ok" /\ ~recompute
           THEN /\ outcome' = [kind |-> "call", op |-> "transform",
                               persist |-> persist, recompute |-> recompute,
                               status |-> "ok", value |-> fetched.value,
                               computed |-> {}]
                /\ aux_data' = aux_data
           ELSE IF ~compute_ok
             THEN /\ outcome' = [kind |-> "call", op |-> "transform",
                                 persist |-> persist, recompute |-> recompute,
                                 status |-> ComputeError(cache_transform),
                                 value |-> EmptyMapping,
                                 computed |-> DOMAIN lib_experts]
                  /\ aux_data' = aux_data
             ELSE /\ outcome' = [kind |-> "call", op |-> "transform",
                                 persist |-> persist, recompute |-> recompute,
                                 status |-> "ok", value |-> fresh,
                                 computed |-> DOMAIN lib_experts]
                  /\ aux_data' = IF persist THEN Persist(aux_data, fresh)
                                 ELSE aux_data
  /\ UNCHANGED <<cache_transform, lib_experts>>
  /\ UNCHANGED notCache

\* svd_embedder.transform(library, persist=persist) as create_embeddings
\* calls it: recompute keeps its default, False
CreateEmbeddings(persist, compute_ok) ==
  LET fetched == SVDEmbeddingFetch(lib_experts, aux_data)
      fresh == [n \in DOMAIN lib_experts |-> Payload(n)]
  IN  IF fetched.status = "ok"
        THEN [status |-> "ok", value |-> fetched.value, computed |-> {},
              aux |-> aux_data]
        ELSE IF ~compute_ok
          THEN [status |-> ComputeError("svd_embedding"),
                value |-> EmptyMapping, computed |-> DOMAIN lib_experts,
                aux |-> aux_data]
          ELSE [status |-> "ok", value |-> fresh,
                computed |-> DOMAIN lib_experts,
                aux |-> IF persist THEN Persist(aux_data, fresh)
                        ELSE aux_data]

\* one call of MBCWithCosSimTransform.transform(library, persist,
\* recompute); value is the embeddings the clusters are built from, and
\* unpacking zip(*sorted(...)) of no embeddings raises ValueError
MBCTransformCall(persist, recompute, compute_ok) ==
  /\ cache_transform = "svd_embedding"
  /\ calls < MaxCalls
  /\ calls' = calls + 1
  /\ LET created ==
           IF Cardinality(DOMAIN aux_data) # Cardinality(DOMAIN lib_experts)
              \/ recompute
             THEN CreateEmbeddings(persist, compute_ok)
             ELSE [status |-> "ok", value |-> aux_data, computed |-> {},
                   aux |-> aux_data]
         status == IF created.status = "ok" /\ DOMAIN created.value = {}
                     THEN "ValueError" ELSE created.status
     IN  /\ outcome' = [kind |-> "call", op |-> "mbc", persist |-> persist,
                        recompute |-> recompute, status |-> status,
                        value |-> IF status = "ok" THEN created.value
                                  ELSE EmptyMapping,
                        computed |-> created.computed]
         /\ aux_data' = created.aux
  /\ UNCHANGED <<cache_transform, lib_experts>>
  /\ UNCHANGED notCache

CacheNext ==
  \/ \E name \in CacheNames : AddExpert(name)
  \/ \E name \in CacheNames : ReplaceExpert(name)
  \/ FetchCall
  \/ \E persist, recompute, compute_ok \in BOOLEAN :
       TransformCall(persist, recompute, compute_ok)
  \/ \E persist, recompute, compute_ok \in BOOLEAN :
       MBCTransformCall(persist, recompute, compute_ok)

(***************************************************************************)
(* Persisting transforms: SVDEmbeddingTransform, HiddenStateComputer,      *)
(* PhatgooseTransform and ArrowTransform writing auxiliary data            *)
(***************************************************************************)
\* largest number of experts in the library of a persisting transform
MaxPersistExperts == 2

\* how many transform() invocations are explored
MaxInvocations == 2

PersistingTransforms ==
  {"svd_embedding", "hidden_state_computer", "phatgoose", "arrow"}

\* ArrowTransformConfig.tie_op: the two supported values and another one
TieOps == {"concat", "sum", "mean"}

PersistConfigs(transform) ==
  IF transform = "arrow"
    THEN {[kind |-> "arrow", tie_op |-> op, ab_only |-> ab] :
            op \in TieOps, ab \in BOOLEAN}
    ELSE {[kind |-> transform, tie_op |-> "None", ab_only |-> TRUE]}

\* an expert and whether some of its parameters are tied (param_map has an
\* entry, so a parent has dependents and len(As) > 1)
PersistLibraries ==
  UNION {[1..n -> BOOLEAN] : n \in 0..MaxPersistExperts}

ExpertName(i) == ExpertNames[i]

\* the data types a transform stores its results under
DataTypes(transform) ==
  IF transform = "arrow"
    THEN <<"arrow_vectors", "arrow_eigvals", "arrow_protos">>
    ELSE <<transform>>

\* the data type fetch / get_auxiliary_data reads
FetchType(transform) ==
  IF transform = "arrow" THEN "arrow_protos" ELSE transform

\* library.get_auxiliary_data(data_type): the expert names that have data
GetAuxiliaryData(st, data_type) ==
  {e.expert_name : e \in {x \in st : x.data_type = data_type}}

\* one library.add_auxiliary_data(data_type, expert_name, data, force) call
AddCall(data_type, i) ==
  [data_type |-> data_type, expert_name |-> ExpertName(i), force |-> TRUE]

\* the add_auxiliary_data calls made for the experts at positions ps
RECURSIVE AddCalls(_, _)
AddCalls(transform, ps) ==
  IF ps = <<>>
    THEN <<>>
    ELSE LET types == DataTypes(transform)
         IN  [j \in 1..Len(types) |-> AddCall(types[j], ps[1])]
               \o AddCalls(transform, Tail(ps))

\* library.batched_commit(): the writes of the scope are applied together
\* when the scope is left; force=True overwrites what was stored before
BatchedCommit(st, writes, inv) ==
  LET written == {<<writes[j].data_type, writes[j].expert_name>> :
                    j \in 1..Len(writes)}
  IN  {e \in st : <<e.data_type, e.expert_name>> \notin written}
        \cup {[data_type |-> w[1], expert_name |-> w[2], by |-> inv] :
                w \in written}

\* the positions 1..n, in library order
Positions(n) == [i \in 1..n |-> i]

NamesAt(ps) == {ExpertName(ps[j]) : j \in 1..Len(ps)}

\* what an invocation hands back: its status, the experts in the returned
\* mapping, the experts it computed, the store and the commit scopes
Finished(status, returned, computed, st, scopes) ==
  [status |-> status, returned |-> returned, computed |-> computed,
   store |-> st, scopes |-> scopes]

\* SVDEmbeddingTransform.transform and HiddenStateComputer.transform: the
\* cache is returned if fetch accepts it, otherwise every expert is
\* computed and the results are written in one scope after the loop
WholeLibraryTransform(transform, lib, st, a) ==
  LET n == Len(lib)
      cached == GetAuxiliaryData(st, FetchType(transform))
      fetch_ok == IF transform = "svd_embedding"
                    THEN Cardinality(cached) = n
                    ELSE Cardinality(cached) > 0
      all == Positions(n)
      writes == AddCalls(transform, all)
  IN  IF fetch_ok /\ ~a.recompute
        THEN Finished("ok", cached, {}, st, <<>>)
        ELSE IF a.fail_at \in 1..n
          THEN Finished(ComputeError(transform), {}, {}, st, <<>>)
          ELSE IF a.persist
            THEN Finished("ok", NamesAt(all), NamesAt(all),
                          BatchedCommit(st, writes, a.inv), <<writes>>)
            ELSE Finished("ok", NamesAt(all), NamesAt(all), st, <<>>)

\* PhatgooseTransform.transform: the loop over expert_names; an expert with
\* loaded gates is skipped, every other expert is trained and, with
\* persist, all outputs so far are written in a scope of their own
RECURSIVE PhatgooseLoop(_, _, _, _, _, _, _)
PhatgooseLoop(lib, i, outputs, computed, st, scopes, a) ==
  IF i > Len(lib)
    THEN Finished("ok", NamesAt(outputs), computed, st, scopes)
    ELSE IF ~a.recompute /\ ExpertName(i) \in a.loaded
      THEN PhatgooseLoop(lib, i + 1, Append(outputs, i), computed, st,
                         scopes, a)
      ELSE IF a.fail_at = i
        THEN Finished("AssertionError", {}, computed, st, scopes)
        ELSE LET out == Append(outputs, i)
                 writes == AddCalls("phatgoose", out)
                 done == computed \cup {ExpertName(i)}
             IN  IF a.persist
                   THEN PhatgooseLoop(lib, i + 1, out, done,
                                      BatchedCommit(st, writes, a.inv),
                                      Append(scopes, writes), a)
                   ELSE PhatgooseLoop(lib, i + 1, out, done, st, scopes, a)

PhatgooseTransform(lib, st, a) ==
  PhatgooseLoop(lib, 1, <<>>, {}, st, <<>>,
                [a EXCEPT !.loaded = GetAuxiliaryData(st, "phatgoose")])

\* the tie_op branch of ArrowTransform.transform, taken for a parameter
\* with tied dependents only
TieOpSupported(cfg, tied) ==
  tied => cfg.tie_op \in {"concat", "sum"}

\* ArrowTransform.transform: the loop over library.items(); the positions
\* computed so far, or the exception that ended the loop. Without ab_only
\* line 1631 calls .float() on a list, which raises AttributeError
RECURSIVE ArrowLoop(_, _, _, _, _)
ArrowLoop(lib, cfg, i, computed, a) ==
  IF i > Len(lib)
    THEN [status |-> "ok", computed |-> computed]
    ELSE IF ExpertName(i) \in a.loaded /\ ~a.recompute
      THEN ArrowLoop(lib, cfg, i + 1, computed, a)
      ELSE IF a.fail_at = i
        THEN [status |-> "AssertionError", computed |-> computed]
        ELSE IF ~TieOpSupported(cfg, lib[i])
          THEN [status |-> "NotImplementedError", computed |-> computed]
        ELSE IF lib[i] /\ cfg.tie_op = "concat" /\ ~cfg.ab_only
          THEN [status |-> "AssertionError", computed |-> computed]
        ELSE IF ~cfg.ab_only
          THEN [status |-> "AttributeError", computed |-> computed]
          ELSE ArrowLoop(lib, cfg, i + 1, Append(computed, i), a)

ArrowTransform(lib, cfg, st, a) ==
  LET protos == GetAuxiliaryData(st, FetchType("arrow"))
      loop == ArrowLoop(lib, cfg, 1, <<>>, [a EXCEPT !.loaded = protos])
      to_upload == loop.computed
      writes == AddCalls("arrow", to_upload)
  IN  IF loop.status # "ok"
        THEN Finished(loop.status, {}, NamesAt(loop.computed), st, <<>>)
        ELSE IF a.persist /\ Len(to_upload) > 0
          THEN Finished("ok", protos \cup NamesAt(to_upload),
                        NamesAt(to_upload),
                        BatchedCommit(st, writes, a.inv), <<writes>>)
          ELSE Finished("ok", protos \cup NamesAt(to_upload),
                        NamesAt(to_upload), st, <<>>)


PersistIdle ==
  /\ pt_transform = "None"
  /\ pt_config = None
  /\ pt_library = <<>>
  /\ store = {}
  /\ invocations = 0
  /\ last = None

PersistInit ==
  /\ pt_transform \in PersistingTransforms
  /\ pt_config \in PersistConfigs(pt_transform)
  /\ pt_library \in PersistLibraries
  /\ store = {}
  /\ invocations = 0
  /\ last = None

\* the arguments of one invocation; fail_at is the position of the expert
\* whose processing raises, 0 if none does
Arguments(persist, recompute, fail_at) ==
  [persist |-> persist, recompute |-> recompute, fail_at |-> fail_at,
   inv |-> invocations + 1, loaded |-> {}]

\* the state after transform(library, persist, recompute) has returned or
\* raised
Invoked(res, a) ==
  /\ invocations < MaxInvocations
  /\ invocations' = invocations + 1
  /\ store' = res.store
  /\ last' = [kind |-> "invocation", inv |-> a.inv, persist |-> a.persist,
              recompute |-> a.recompute, status |-> res.status,
              returned |-> res.returned, computed |-> res.computed,
              scopes |-> res.scopes]
  /\ UNCHANGED <<pt_transform, pt_config, pt_library>>
  /\ UNCHANGED notPersist

SVDEmbeddingTransformCall(persist, recompute, fail_at) ==
  /\ pt_transform = "svd_embedding"
  /\ LET a == Arguments(persist, recompute, fail_at)
     IN  Invoked(WholeLibraryTransform(pt_transform, pt_library, store, a), a)

HiddenStateTransformCall(persist, recompute, fail_at) ==
  /\ pt_transform = "hidden_state_computer"
  /\ LET a == Arguments(persist, recompute, fail_at)
     IN  Invoked(WholeLibraryTransform(pt_transform, pt_library, store, a), a)

PhatgooseTransformCall(persist, recompute, fail_at) ==
  /\ pt_transform = "phatgoose"
  /\ LET a == Arguments(persist, recompute, fail_at)
     IN  Invoked(PhatgooseTransform(pt_library, store, a), a)

ArrowTransformCall(persist, recompute, fail_at) ==
  /\ pt_transform = "arrow"
  /\ LET a == Arguments(persist, recompute, fail_at)
     IN  Invoked(ArrowTransform(pt_library, pt_config, store, a), a)

PersistNext ==
  \/ \E persist, recompute \in BOOLEAN, fail_at \in 0..Len(pt_library) :
       SVDEmbeddingTransformCall(persist, recompute, fail_at)
  \/ \E persist, recompute \in BOOLEAN, fail_at \in 0..Len(pt_library) :
       HiddenStateTransformCall(persist, recompute, fail_at)
  \/ \E persist, recompute \in BOOLEAN, fail_at \in 0..Len(pt_library) :
       PhatgooseTransformCall(persist, recompute, fail_at)
  \/ \E persist, recompute \in BOOLEAN, fail_at \in 0..Len(pt_library) :
       ArrowTransformCall(persist, recompute, fail_at)

(***************************************************************************)
(* LibraryTransformConfig.save_name: _hash_field, param_hash               *)
(***************************************************************************)
\* Python values: the type and the payload
PyNone == [t |-> "NoneType", v |-> 0]

PyStr(s) == [t |-> "str", v |-> s]

PyInt(n) == [t |-> "int", v |-> n]

\* the float n.0
PyFloat(n) == [t |-> "float", v |-> n]

PyBool(b) == [t |-> "bool", v |-> b]

PyList(items) == [t |-> "list", v |-> items]

PyTuple(items) == [t |-> "tuple", v |-> items]

\* a dict: its (key, value) items in insertion order
PyDict(items) == [t |-> "dict", v |-> items]

\* the order of str keys under <
KeyRank(k) == IF k = "a" THEN 1 ELSE 2

\* the values a config field is given
FieldVals ==
  {PyNone, PyStr(""), PyStr("a"), PyInt(1), PyFloat(1),
   PyList(<<>>), PyTuple(<<>>), PyList(<<PyInt(1)>>), PyTuple(<<PyInt(1)>>),
   PyDict(<<>>), PyDict(<<<<"a", PyInt(1)>>>>),
   PyDict(<<<<"a", PyInt(1)>>, <<"b", PyInt(2)>>>>),
   PyDict(<<<<"b", PyInt(2)>>, <<"a", PyInt(1)>>>>),
   PyTuple(<<PyTuple(<<PyStr("a"), PyInt(1)>>)>>)}

\* the values of LibraryTransformConfig.name
NameVals == {PyNone, PyStr(""), PyStr("a"), PyStr("b")}

\* the config classes and the domain of each field after `name`
ConfigClasses == {"WeightedLinearMergeConfig", "TiesMergeConfig"}

FieldDomains(class) ==
  IF class = "WeightedLinearMergeConfig"
    THEN <<FieldVals>>
    ELSE <<{PyFloat(1), PyInt(1), PyNone}, {PyBool(FALSE), PyBool(TRUE)}>>

\* self.__class__.__name__.lower()
Lower(class) ==
  IF class = "WeightedLinearMergeConfig"
    THEN "weightedlinearmergeconfig"
    ELSE "tiesmergeconfig"

RECURSIVE FieldTuples(_)
FieldTuples(domains) ==
  IF domains = <<>>
    THEN {<<>>}
    ELSE {<<x>> \o rest : x \in domains[1], rest \in FieldTuples(Tail(domains))}

\* the instances of a class: dataclasses.fields(p) lists name first
ConfigsOf(class) ==
  {[class |-> class, fields |-> <<nm>> \o fs] :
     nm \in NameVals, fs \in FieldTuples(FieldDomains(class))}

\* repr() of a value, which str() of the enclosing tuple applies to each
\* element
RECURSIVE Repr(_)
RECURSIVE ReprItems(_)
RECURSIVE ReprDictItems(_)
ReprItems(items) ==
  IF Len(items) = 0 THEN ""
  ELSE IF Len(items) = 1 THEN Repr(items[1])
  ELSE Repr(items[1]) \o ", " \o ReprItems(Tail(items))

ReprDictItems(items) ==
  IF Len(items) = 0 THEN ""
  ELSE LET first == "'" \o items[1][1] \o "': " \o Repr(items[1][2])
       IN  IF Len(items) = 1 THEN first
           ELSE first \o ", " \o ReprDictItems(Tail(items))

Repr(x) ==
  CASE x.t = "NoneType" -> "None"
    [] x.t = "str"      -> "'" \o x.v \o "'"
    [] x.t = "int"      -> ToString(x.v)
    [] x.t = "float"    -> ToString(x.v) \o ".0"
    [] x.t = "bool"     -> IF x.v THEN "True" ELSE "False"
    [] x.t = "list"     -> "[" \o ReprItems(x.v) \o "]"
    [] x.t = "tuple"    -> "(" \o ReprItems(x.v)
                             \o (IF Len(x.v) = 1 THEN "," ELSE "") \o ")"
    [] x.t = "dict"     -> "{" \o ReprDictItems(x.v) \o "}"

\* sorted(val.items()): the items by ascending key
RECURSIVE SortedItems(_)
SortedItems(items) ==
  IF items = <<>>
    THEN <<>>
    ELSE LET m == CHOOSE j \in 1..Len(items) :
                    \A k \in 1..Len(items) :
                      KeyRank(items[j][1]) <= KeyRank(items[k][1])
             rest == [k \in 1..(Len(items) - 1) |->
                        IF k < m THEN items[k] ELSE items[k + 1]]
         IN  <<items[m]>> \o SortedItems(rest)

\* the (key, value) tuples of dict.items()
ItemTuples(items) ==
  [j \in 1..Len(items) |-> PyTuple(<<PyStr(items[j][1]), items[j][2]>>)]

HashFieldUnsorted(val) ==
  CASE val.t = "NoneType" -> PyStr("")
    [] val.t = "list"     -> PyTuple(val.v)
    [] val.t = "dict"     -> PyTuple(ItemTuples(val.v))
    [] OTHER              -> val

HashField(val) ==
  CASE val.t = "NoneType" -> PyStr("")
    [] val.t = "list"     -> PyTuple(val.v)
    [] val.t = "dict"     -> PyTuple(ItemTuples(SortedItems(val.v)))
    [] OTHER              -> val

\* hashlib.md5(...).hexdigest(), taken as injective on the hashed string
Md5(str) == "md5<" \o str \o ">"

ParamHash(p) ==
  Md5(Repr(PyTuple([i \in 1..Len(p.fields) |-> HashField(p.fields[i])])))

\* `if self.name:`
Truthy(val) == val.t = "str" /\ val.v # ""

SaveName(p) ==
  IF Truthy(p.fields[1])
    THEN p.fields[1].v
    ELSE Lower(p.class) \o "-" \o ParamHash(p)

HashIdle ==
  /\ cfg_p = None
  /\ cfg_q = None
  /\ save_names = None

HashInit ==
  /\ \E class \in ConfigClasses :
       /\ cfg_p \in ConfigsOf(class)
       /\ cfg_q \in ConfigsOf(class)
  /\ save_names = None

\* both configs' save_name properties are read
SaveNameCall ==
  /\ save_names = None
  /\ save_names' = [kind |-> "names", p |-> SaveName(cfg_p),
                    q |-> SaveName(cfg_q)]
  /\ UNCHANGED <<cfg_p, cfg_q>>
  /\ UNCHANGED notHash

HashNext == SaveNameCall

(***************************************************************************)
(* The library's objects in memory: what WeightedLinearMerge, TiesMerge    *)
(* and ExpertProjector._project read, copy and write in place              *)
(***************************************************************************)
\* an address is the index of the object in its part of the heap
EmptyHeap == [experts |-> <<>>, configs |-> <<>>, tensors |-> <<>>]

\* a new tensor object holding val; its address is Len(H.tensors)
AllocTensor(H, val) == [H EXCEPT !.tensors = Append(@, val)]

\* new tensor objects for the values of the keys, in dict order
RECURSIVE AllocTensors(_, _, _)
AllocTensors(H, keys, vals) ==
  IF keys = <<>> THEN H
  ELSE AllocTensors(AllocTensor(H, vals[keys[1]]), Tail(keys), vals)

\* the addresses AllocTensors gives to the keys when the heap held n tensors
TensorAddrs(keys, n) ==
  [k \in {keys[j] : j \in 1..Len(keys)} |->
     n + (CHOOSE j \in 1..Len(keys) : keys[j] = k)]

\* an Expert object with a config object and tensor objects of its own
AllocExpert(H, name, cfg, vals) ==
  LET keys == KeysOf(vals)
      H1 == AllocTensors(H, keys, vals)
      H2 == [H1 EXCEPT !.configs = Append(@, cfg)]
  IN  [H2 EXCEPT !.experts =
         Append(@, [name |-> name, config |-> Len(H2.configs),
                    weights |-> TensorAddrs(keys, Len(H.tensors))])]

\* the library's experts laid out in memory, one after the other
RECURSIVE Loaded(_, _)
Loaded(H, experts) ==
  IF experts = <<>> THEN H
  ELSE Loaded(AllocExpert(H, experts[1].name, experts[1].expert_config,
                          experts[1].expert_weights),
              Tail(experts))

\* expert.expert_weights as values
WeightsOf(H, e) ==
  [k \in DOMAIN H.experts[e].weights |-> H.tensors[H.experts[e].weights[k]]]

\* the Expert at address e as a value
ExpertAt(H, e) ==
  [name |-> H.experts[e].name,
   expert_config |-> H.configs[H.experts[e].config],
   expert_weights |-> WeightsOf(H, e)]

\* [library[name] for name in expert_names]
ExpertsOf(H, addrs) == [i \in 1..Len(addrs) |-> ExpertAt(H, addrs[i])]

DeepCopyShared(H, e) ==
  [H EXCEPT !.experts = Append(@, H.experts[e])]

\* copy.deepcopy(expert): the copy is the last Expert of the heap
DeepCopy(H, e) ==
  AllocExpert(H, H.experts[e].name, H.configs[H.experts[e].config],
              WeightsOf(H, e))

\* expert.name = name
SetName(H, e, name) == [H EXCEPT !.experts[e].name = name]

\* expert.expert_config.tie_params = None
ClearTieParams(H, e) ==
  [H EXCEPT !.configs[H.experts[e].config].tie_params = "None"]

\* in-place writes (*=, +=, /=, .data.copy_) to the tensors of expert e
\* under the keys of vals
WriteTensors(H, e, vals) ==
  LET w == H.experts[e].weights
      written == {w[k] : k \in DOMAIN vals}
  IN  [H EXCEPT !.tensors =
         [a \in 1..Len(H.tensors) |->
            IF a \in written
              THEN vals[CHOOSE k \in DOMAIN vals : w[k] = a]
              ELSE H.tensors[a]]]

\* what a call leaves behind: the heap, the status and the returned Expert
Left(H, status, e) ==
  [heap |-> H, kind |-> "result", status |-> status, value |-> e]

\* lines 747-761 on the objects: validate expert i, then += into base
RECURSIVE HeapWLMAccumulate(_, _, _, _, _)
HeapWLMAccumulate(H, addrs, i, base, cfg) ==
  IF i > Len(addrs) THEN Left(H, "ok", base)
  ELSE
    LET e == addrs[i] IN
    IF H.configs[H.experts[e].config].type
         # H.configs[H.experts[base].config].type
      THEN Left(H, "AssertionError", 0)
    ELSE IF DOMAIN H.experts[e].weights # DOMAIN H.experts[base].weights
      THEN Left(H, "AssertionError", 0)
    ELSE
      HeapWLMAccumulate(
        WriteTensors(H, base,
          [k \in DOMAIN H.experts[e].weights |->
             TAdd(WeightsOf(H, base)[k],
                  TScale(WeightsOf(H, e)[k],
                         ExpertWeight(cfg, H.experts[e].name)))]),
        addrs, i + 1, base, cfg)

\* WeightedLinearMerge.transform on the objects of the library
HeapWLMTransform(H, addrs, cfg) ==
  IF Len(addrs) = 0 THEN Left(H, "IndexError", 0)
  ELSE
    LET H1 == DeepCopy(H, addrs[1])
        base == Len(H1.experts)
        H2 == SetName(H1, base, "weighted_expert")
        names == {H.experts[addrs[i]].name : i \in 1..Len(addrs)}
        H3 == IF cfg.weights.kind = "None" THEN H2
              ELSE WriteTensors(H2, base,
                     [k \in DOMAIN H2.experts[base].weights |->
                        TScale(WeightsOf(H2, base)[k],
                               cfg.weights.items[H.experts[addrs[1]].name])])
    IN  IF cfg.weights.kind # "None" /\ DOMAIN cfg.weights.items # names
          THEN Left(H2, "AssertionError", 0)
          ELSE
            LET acc == HeapWLMAccumulate(H3, addrs, 2, base, cfg)
                H4 == IF cfg.weights.kind # "None" THEN acc.heap
                      ELSE WriteTensors(acc.heap, base,
                             [k \in DOMAIN acc.heap.experts[base].weights |->
                                TDiv(WeightsOf(acc.heap, base)[k],
                                     R(Len(addrs)))])
            IN  IF acc.status # "ok" THEN acc
                ELSE Left(ClearTieParams(H4, base), "ok", base)

\* TiesMerge.transform on the objects of the library: the merged tensors
\* are copied into the tensors of the deep copy
HeapTiesTransform(H, addrs, cfg) ==
  IF Len(addrs) = 0 THEN Left(H, "IndexError", 0)
  ELSE
    LET H1 == DeepCopy(H, addrs[1])
        base == Len(H1.experts)
        H2 == SetName(H1, base, "ties_weighted_expert")
        merged == TiesTransform(ExpertsOf(H2, addrs), cfg)
    IN  IF merged.status # "ok" THEN Left(H2, merged.status, 0)
        ELSE Left(ClearTieParams(
                    WriteTensors(H2, base, merged.value.expert_weights), base),
                  "ok", base)

\* ExpertProjectorConfig.granularity: the two supported values and another
Granularities == {"finegrained", "coarsegrained", "layerwise"}

ExpertProjectorConfigs ==
  {[kind |-> "expert_projector", granularity |-> g] : g \in Granularities}

Dot(u, v) == SumSeq([i \in 1..Len(u) |-> RMul(u[i], v[i])])

IsZero(u) == \A i \in 1..Len(u) : u[i] = R(0)

Independent(u, v) ==
  \E i, j \in 1..Len(u) : RMul(u[i], v[j]) # RMul(u[j], v[i])

\* basis.T @ lstsq(basis.T, s).solution: the orthogonal projection of s on
\* the span of the basis vectors, for vectors of at most two elements
ProjectOnto(basis, s) ==
  IF \A i \in 1..Len(basis) : IsZero(basis[i])
    THEN [i \in 1..Len(s) |-> R(0)]
    ELSE IF \E i, j \in 1..Len(basis) : Independent(basis[i], basis[j])
      THEN s
      ELSE LET b == basis[CHOOSE i \in 1..Len(basis) : ~IsZero(basis[i])]
           IN  TScale(b, RDiv(Dot(b, s), Dot(b, b)))

\* the part of a flattened parameter vector that belongs to keys[j]
Slice(vector, j) == SubSeq(vector, (j - 1) * TensorLen + 1, j * TensorLen)

\* lines 1735-1748 with per-parameter coefficients: project key after key
\* into the copy; a basis expert without the key raises KeyError
RECURSIVE ProjectEach(_, _, _, _, _, _)
ProjectEach(H, source, basis, projected, keys, j) ==
  IF j > Len(keys) THEN Left(H, "ok", projected)
  ELSE IF \E i \in 1..Len(basis) :
            keys[j] \notin DOMAIN H.experts[basis[i]].weights
    THEN Left(H, "KeyError", 0)
    ELSE ProjectEach(
           WriteTensors(H, projected,
             [k \in {keys[j]} |->
                ProjectOnto([i \in 1..Len(basis) |->
                               WeightsOf(H, basis[i])[keys[j]]],
                            WeightsOf(H, source)[keys[j]])]),
           source, basis, projected, keys, j + 1)

\* ExpertProjector._project(source_expert, expert_basis, granularity)
HeapProject(H, source, basis, granularity) ==
  LET keys == KeysOf(H.experts[source].weights)
      keyset == DOMAIN H.experts[source].weights
  IN
  IF Len(basis) = 0 THEN Left(H, "IndexError", 0)
  ELSE IF keyset # DOMAIN H.experts[basis[1]].weights
    THEN Left(H, "AssertionError", 0)
  ELSE IF granularity = "coarsegrained"
    THEN IF \E i \in 1..Len(basis) :
              ~(keyset \subseteq DOMAIN H.experts[basis[i]].weights)
           THEN Left(H, "KeyError", 0)
           ELSE
             LET whole == ProjectOnto(
                            [i \in 1..Len(basis) |->
                               Flatten(WeightsOf(H, basis[i]), keys)],
                            Flatten(WeightsOf(H, source), keys))
                 H1 == DeepCopy(H, source)
                 projected == Len(H1.experts)
             IN  Left(WriteTensors(H1, projected,
                        [k \in keyset |->
                           Slice(whole,
                                 CHOOSE j \in 1..Len(keys) : keys[j] = k)]),
                      "ok", projected)
  ELSE IF granularity # "finegrained"
    THEN Left(H, "AssertionError", 0)
    ELSE LET H1 == DeepCopy(H, source)
         IN  ProjectEach(H1, source, basis, Len(H1.experts), keys, 1)

HeapIdle ==
  /\ heap = EmptyHeap
  /\ lib_addrs = <<>>
  /\ frame_config = None
  /\ frame_ret = None

HeapInit ==
  /\ \E lib \in Libraries :
       /\ heap = Loaded(EmptyHeap, lib)
       /\ lib_addrs = Positions(Len(lib))
       /\ frame_config \in WeightedLinearMergeConfigs(lib)
                             \cup TiesMergeConfigs \cup ExpertProjectorConfigs
  /\ frame_ret = None

\* the state after the call has returned or raised
Called(res) ==
  /\ frame_ret.kind = "None"
  /\ heap' = res.heap
  /\ frame_ret' = [kind |-> "result", status |-> res.status,
                   value |-> res.value]
  /\ UNCHANGED <<lib_addrs, frame_config>>
  /\ UNCHANGED notHeap

WeightedLinearMergeOnHeap ==
  /\ frame_config.kind = "weighted_linear_merge"
  /\ Called(HeapWLMTransform(heap, lib_addrs, frame_config))

TiesMergeOnHeap ==
  /\ frame_config.kind = "ties_merge"
  /\ Called(HeapTiesTransform(heap, lib_addrs, frame_config))

\* the first expert is projected on the basis of the others
ProjectOnHeap ==
  /\ frame_config.kind = "expert_projector"
  /\ Len(lib_addrs) >= 1
  /\ Called(HeapProject(heap, lib_addrs[1], Tail(lib_addrs),
                        frame_config.granularity))

HeapNext ==
  \/ WeightedLinearMergeOnHeap
  \/ TiesMergeOnHeap
  \/ ProjectOnHeap

(***************************************************************************)
(* LoRA.parallel_linear_forward and                                        *)
(* SkilledLoRA.parallel_linear_weighted_forward over a list of adapters    *)
(* on layers with one input and one output feature, rank 1                 *)
(***************************************************************************)
\* largest number of adapters in the list
MaxLoras == 2

\* largest batch
MaxBatch == 2

ParEntries == {"parallel_linear_forward", "parallel_linear_weighted_forward"}

LayerIds == {1, 2}

\* the skills of a skilled adapter
ParSkills == 2

\* the adapter at position i of the list: a LoRA for parallel_linear_forward,
\* a SkilledLoRA otherwise; lora_a and lora_b hold one entry per skill;
\* enabled is the flag enable() and disable() set
ParLoRAsAt(entry, i) ==
  [layer : LayerIds,
   merged_with_layer : {FALSE},
   enabled : BOOLEAN,
   scaling : {i},
   lora_a : IF entry = "parallel_linear_forward"
              THEN {<<1>>} ELSE {[e \in 1..ParSkills |-> e]},
   lora_b : IF entry = "parallel_linear_forward"
              THEN {<<i>>} ELSE {[e \in 1..ParSkills |-> i + e]}]

RECURSIVE ParLoRALists(_, _)
ParLoRALists(entry, n) ==
  IF n = 0 THEN {<<>>}
  ELSE {Append(l, a) : l \in ParLoRALists(entry, n - 1),
                       a \in ParLoRAsAt(entry, n)}

\* the batch of inputs, the routing weights [batch][experts] and the names
\* given for the dimensions of the weights
ParInputs ==
  [x : UNION {[1..b -> {1, 2}] : b \in 1..MaxBatch},
   dim_names : {<<"batch", "experts">>, <<"experts">>}]

RoutingWeights(b) == [e \in 1..ParSkills |-> b + e]

ParIdle ==
  /\ par_entry = "None"
  /\ par_loras = <<>>
  /\ par_weights = <<>>
  /\ par_input = None
  /\ par_merges = 0
  /\ par_ret = None

ParInit ==
  /\ par_entry \in ParEntries
  /\ par_loras \in UNION {ParLoRALists(par_entry, n) : n \in 1..MaxLoras}
  /\ par_weights = [l \in LayerIds |-> l]
  /\ par_input \in ParInputs
  /\ par_merges = 0
  /\ par_ret = None

\* loras[i].merge_with_layer(): a LoRA adds lora_a @ lora_b * scaling to its
\* layer; the 4-D factors of a SkilledLoRA cannot be added to the 2-D weight,
\* so the call raises after merged_with_layer has been set
MergeOne(i) ==
  /\ i \in 1..Len(par_loras)
  /\ par_merges < MaxMerges
  /\ par_merges' = par_merges + 1
  /\ par_loras' = [par_loras EXCEPT ![i].merged_with_layer = TRUE]
  /\ IF par_entry = "parallel_linear_forward"
       THEN /\ par_weights' =
                 [par_weights EXCEPT ![par_loras[i].layer] =
                    @ + par_loras[i].lora_a[1] * par_loras[i].lora_b[1]
                          * par_loras[i].scaling]
            /\ par_ret' = None
       ELSE /\ par_weights' = par_weights
            /\ par_ret' = [kind |-> "merge", status |-> "RuntimeError",
                           output |-> <<>>]
  /\ UNCHANGED <<par_entry, par_input>>
  /\ UNCHANGED notPar

AnyMerged(loras) == \E i \in 1..Len(loras) : loras[i].merged_with_layer

DifferentLayers(loras) ==
  Cardinality({loras[i].layer : i \in 1..Len(loras)}) > 1

ParRaised(exc) == [kind |-> "call", status |-> exc, output |-> <<>>]

ParReturned(out) == [kind |-> "call", status |-> "ok", output |-> out]

\* LoRA.parallel_linear_forward(input, loras)
ParallelLinearForward(x, loras, W) ==
  IF AnyMerged(loras) THEN ParRaised("ValueError")
  ELSE IF DifferentLayers(loras) THEN ParRaised("ValueError")
  ELSE IF Len(loras) \notin {1, Len(x)} THEN ParRaised("ValueError")
  ELSE ParReturned(
         [b \in 1..Len(x) |->
            LET l == IF Len(loras) = 1 THEN loras[1] ELSE loras[b]
            IN  W[loras[1].layer] * x[b]
                  + x[b] * l.lora_a[1] * l.lora_b[1] * l.scaling])

\* loras[i].forward on the single example x
ParForward(l, W, x) ==
  IF l.merged_with_layer \/ ~l.enabled
    THEN W[l.layer] * x
    ELSE W[l.layer] * x + x * l.lora_a[1] * l.lora_b[1] * l.scaling

ParallelLinearWeightedForwardMergeAfter(x, loras, W, dim_names) ==
  IF DifferentLayers(loras) THEN ParRaised("ValueError")
  ELSE IF Len(dim_names) # 2 THEN ParRaised("ValueError")
  ELSE IF Len(loras) \notin {1, Len(x)} THEN ParRaised("RuntimeError")
  ELSE ParReturned(
         [b \in 1..Len(x) |->
            LET l == IF Len(loras) = 1 THEN loras[1] ELSE loras[b]
                w == RoutingWeights(b)
            IN  [j \in 1..Len(loras) |->
                   W[loras[1].layer] * x[b]
                     + SumTo([e \in 1..ParSkills |->
                                w[e] * x[b] * l.lora_a[e] * l.lora_b[e]],
                             ParSkills) * loras[j].scaling]])

\* SkilledLoRA.parallel_linear_weighted_forward(input, skilled_loras,
\* weights, dim_names) with merge_after=False; the scaling vector is
\* broadcast along the last axis of adapter_out
ParallelLinearWeightedForward(x, loras, W, dim_names) ==
  IF DifferentLayers(loras) THEN ParRaised("ValueError")
  ELSE IF Len(dim_names) # 2 THEN ParRaised("ValueError")
  ELSE IF Len(loras) \notin {1, Len(x)} THEN ParRaised("RuntimeError")
  ELSE ParReturned(
         [b \in 1..Len(x) |->
            LET l == IF Len(loras) = 1 THEN loras[1] ELSE loras[b]
                w == RoutingWeights(b)
                A == SumTo([e \in 1..ParSkills |-> w[e] * l.lora_a[e]],
                           ParSkills)
                B == SumTo([e \in 1..ParSkills |-> w[e] * l.lora_b[e]],
                           ParSkills)
            IN  [j \in 1..Len(loras) |->
                   W[loras[1].layer] * x[b] + x[b] * A * B * loras[j].scaling]])

ParallelLinearForwardCall ==
  /\ par_entry = "parallel_linear_forward"
  /\ par_ret.kind # "call"
  /\ par_ret' = ParallelLinearForward(par_input.x, par_loras, par_weights)
  /\ UNCHANGED <<par_entry, par_loras, par_weights, par_input, par_merges>>
  /\ UNCHANGED notPar

ParallelLinearWeightedForwardCall ==
  /\ par_entry = "parallel_linear_weighted_forward"
  /\ par_ret.kind # "call"
  /\ par_ret' = ParallelLinearWeightedForward(par_input.x, par_loras,
                                              par_weights, par_input.dim_names)
  /\ UNCHANGED <<par_entry, par_loras, par_weights, par_input, par_merges>>
  /\ UNCHANGED notPar

ParNext ==
  \/ \E i \in 1..MaxLoras : MergeOne(i)
  \/ ParallelLinearForwardCall
  \/ ParallelLinearWeightedForwardCall

(***************************************************************************)
(* SkilledLoRA: get_skill_weights, set_skill, add_skill, forward           *)
(***************************************************************************)
\* largest number of skills add_skill may reach
MaxSkills == 3

\* how many calls on the adapter are explored
MaxSkillCalls == 2

SkilledLoRAConfigs ==
  [n_splits : {1, 2}, scaling : {1, 2}, lora_init_b_random : BOOLEAN]

\* the skill indices callers pass, in range and out of range on both sides
SkillIndices == (0 - MaxSkills - 1)..(MaxSkills + 1)

\* the adapters handed to set_skill / add_skill: factors of q entries for a
\* layer with q features; the last one has factors of another size
GivenLoras(q) ==
  {[lora_a |-> Stack([i \in 1..q |-> 5], q),
    lora_b |-> Stack([i \in 1..q |-> 7], q)],
   [lora_a |-> Stack([i \in 1..q |-> 5], q),
    lora_b |-> Stack([i \in 1..(q + 1) |-> 7], q + 1)]}

\* a tensor of rows m[1], ..., m[Len(m)], each materialised
Rows(m) == Stack([r \in 1..Len(m) |-> Stack(m[r], Len(m[r]))], Len(m))

\* the position of Python index idx in a sequence of n rows, 0 if idx is
\* out of range for indexing
PyIndex(idx, n) ==
  IF idx >= 0 /\ idx < n THEN idx + 1
  ELSE IF idx < 0 /\ idx >= 0 - n THEN n + idx + 1
  ELSE 0

\* what a call leaves behind: the call and how it ended ("ok" or the
\* exception raised)
SkRaised(op, skill_index, exc) ==
  [kind |-> "call", op |-> op, skill_index |-> skill_index, status |-> exc]

SkIdle ==
  /\ sk_config = None
  /\ sk_n_skills = 0
  /\ sk_lora_a = <<>>
  /\ sk_lora_b = <<>>
  /\ sk_enabled = FALSE
  /\ sk_training_steps = 0
  /\ sk_calls = 0
  /\ sk_ret = None

\* SkilledLoRA.__init__: create_for_layer and reset_parameters
SkInit ==
  /\ sk_config \in SkilledLoRAConfigs
  /\ sk_n_skills \in 1..2
  /\ sk_lora_a = Rows([s \in 1..sk_n_skills |->
                          [q \in 1..sk_config.n_splits |-> s + q]])
  /\ sk_lora_b = Rows([s \in 1..sk_n_skills |->
                          [q \in 1..sk_config.n_splits |->
                             IF sk_config.lora_init_b_random THEN 2 * s + q
                             ELSE 0]])
  /\ sk_enabled = TRUE
  /\ sk_training_steps = 0
  /\ sk_calls = 0
  /\ sk_ret = None

\* one more call is made
SkCalled ==
  /\ sk_calls < MaxSkillCalls
  /\ sk_calls' = sk_calls + 1
  /\ UNCHANGED <<sk_config, sk_training_steps>>
  /\ UNCHANGED notSk

\* SkilledLoRA.get_skill_weights(skill_index)
GetSkillWeights(skill_index) ==
  /\ SkCalled
  /\ sk_ret' =
       IF skill_index >= sk_n_skills
         THEN SkRaised("get_skill_weights", skill_index, "ValueError")
         ELSE IF PyIndex(skill_index, Len(sk_lora_a)) = 0
           THEN SkRaised("get_skill_weights", skill_index, "IndexError")
           ELSE [kind |-> "call", op |-> "get_skill_weights",
                 skill_index |-> skill_index, status |-> "ok",
                 value |->
                   [lora_a |-> <<sk_lora_a[PyIndex(skill_index, Len(sk_lora_a))]>>,
                    lora_b |-> <<sk_lora_b[PyIndex(skill_index, Len(sk_lora_b))]>>]]
  /\ UNCHANGED <<sk_n_skills, sk_lora_a, sk_lora_b, sk_enabled>>

\* the effect of set_skill(lora, skill_index) on factors a and b: the
\* reshape of lora.lora_a, its assignment, then the same for lora_b
SetSkillOn(a, b, lora, skill_index) ==
  LET q == sk_config.n_splits
      at == PyIndex(skill_index, Len(a))
  IN  IF skill_index >= Len(a)
        THEN [status |-> "ValueError", lora_a |-> a, lora_b |-> b]
      ELSE IF Len(lora.lora_a) # q
        THEN [status |-> "RuntimeError", lora_a |-> a, lora_b |-> b]
      ELSE IF at = 0
        THEN [status |-> "IndexError", lora_a |-> a, lora_b |-> b]
      ELSE IF Len(lora.lora_b) # q
        THEN [status |-> "RuntimeError",
              lora_a |-> [a EXCEPT ![at] = lora.lora_a], lora_b |-> b]
      ELSE [status |-> "ok",
            lora_a |-> [a EXCEPT ![at] = lora.lora_a],
            lora_b |-> [b EXCEPT ![at] = lora.lora_b]]

\* SkilledLoRA.set_skill(lora, skill_index)
SetSkill(lora, skill_index) ==
  /\ SkCalled
  /\ LET res == SetSkillOn(sk_lora_a, sk_lora_b, lora, skill_index)
     IN  /\ sk_lora_a' = res.lora_a
         /\ sk_lora_b' = res.lora_b
         /\ sk_ret' = SkRaised("set_skill", skill_index, res.status)
  /\ UNCHANGED <<sk_n_skills, sk_enabled>>

\* SkilledLoRA.add_skill(lora): a row of zeros is appended to both
\* factors, set_skill fills it, then n_skills is incremented
AddSkill(lora) ==
  /\ SkCalled
  /\ sk_n_skills < MaxSkills
  /\ LET zeros == Stack([q \in 1..sk_config.n_splits |-> 0], sk_config.n_splits)
         res == SetSkillOn(Append(sk_lora_a, zeros), Append(sk_lora_b, zeros),
                           lora, sk_n_skills)
     IN  /\ sk_lora_a' = res.lora_a
         /\ sk_lora_b' = res.lora_b
         /\ sk_n_skills' = IF res.status = "ok" THEN sk_n_skills + 1
                           ELSE sk_n_skills
         /\ sk_ret' = SkRaised("add_skill", sk_n_skills, res.status)
  /\ UNCHANGED sk_enabled

SkEnable ==
  /\ SkCalled
  /\ sk_enabled' = TRUE
  /\ sk_ret' = None
  /\ UNCHANGED <<sk_n_skills, sk_lora_a, sk_lora_b>>

SkDisable ==
  /\ SkCalled
  /\ sk_enabled' = FALSE
  /\ sk_ret' = None
  /\ UNCHANGED <<sk_n_skills, sk_lora_a, sk_lora_b>>

\* largest batch of a SkilledLoRA.forward call
MaxSkBatch == 2

\* input activations: one row of q features per batch element
SkInputs(q) ==
  {Rows([b \in 1..bs |-> [i \in 1..q |-> b + i - 1]]) : bs \in 1..MaxSkBatch}

\* the weights over n skills of one batch element and split
SkillWeights(n) == {Stack(r, n) : r \in [1..n -> {0, 1}]}

\* the routing tensors passed to forward for a batch of bs: 1-D skill
\* indices, 2-D per-example mixtures, 3-D per-example per-split mixtures;
\* the field that holds the entries is named after the rank
ForwardWeights(ndim, bs, q, n) ==
  IF ndim = 1
    THEN {[ndim |-> 1, b |-> Stack(w, bs)] : w \in [1..bs -> 0..n]}
  ELSE IF ndim = 2
    THEN {[ndim |-> 2, bs |-> Stack([b \in 1..bs |-> r], bs)] :
            r \in SkillWeights(n)}
  ELSE {[ndim |-> 3,
         bqs |-> Stack([b \in 1..bs |->
                         Stack([p \in 1..q |->
                                  IF uniform \/ (b + p) % 2 = 0 THEN r
                                  ELSE Stack([i \in 1..n |-> 1], n)], q)], bs)] :
          r \in SkillWeights(n), uniform \in BOOLEAN}

\* lora_a.data.copy_(lora_a.data[:1].repeat(n_skills, 1, 1, 1)): every row
\* becomes row 0; the copy fails when n_skills rows can not be broadcast to
\* the rows of the factor
RepeatFirst(f, n) ==
  IF n = Len(f) \/ n = 1
    THEN [status |-> "ok", f |-> Stack([s \in 1..Len(f) |-> f[1]], Len(f))]
    ELSE [status |-> "RuntimeError", f |-> f]

\* einsum("bqs,sqdr->bqdr", weights, factor)
Einsum(w, f) ==
  [b \in 1..Len(w) |->
     [p \in 1..Len(w[b]) |->
        SumTo([s \in 1..Len(f) |-> w[b][p][s] * f[s][p]], Len(f))]]

\* input_lora.bmm(A).bmm(B) * scaling, with rank 1
Bilinear(input, A, B, by) ==
  [b \in 1..Len(input) |->
     [o \in 1..Len(B[b]) |->
        SumTo([i \in 1..Len(input[b]) |-> input[b][i] * A[b][i]],
              Len(input[b])) * B[b][o] * by]]

\* SkilledLoRA.forward(input, weights) on an adapter with factors a, b:
\* how the call ends, what it returns and the factors it leaves
SkilledForward(a, b, n_skills, is_enabled, training_steps, by, input, weights) ==
  LET q == Len(input[1])
      layer_out == LayerOut(InitialWeight(q, q), input)
      wrm_steps == 0
      ended(status, fa, fb) ==
        [status |-> status, out |-> <<>>, lora_a |-> fa, lora_b |-> fb]
      returned(out, fa, fb) ==
        [status |-> "ok", out |-> out, lora_a |-> fa, lora_b |-> fb]
      adapted(A, B, fa, fb) ==
        returned(Rows(MatAdd(layer_out, Bilinear(input, A, B, by))), fa, fb)
  IN  IF ~is_enabled THEN returned(Rows(layer_out), a, b)
      ELSE IF weights.ndim = 1 THEN
        IF training_steps < wrm_steps
          THEN adapted([i \in 1..Len(weights.b) |-> a[1]],
                       [i \in 1..Len(weights.b) |-> b[1]], a, b)
        ELSE
          LET ra == IF training_steps = wrm_steps THEN RepeatFirst(a, n_skills)
                    ELSE [status |-> "ok", f |-> a]
              rb == IF training_steps = wrm_steps THEN RepeatFirst(b, n_skills)
                    ELSE [status |-> "ok", f |-> b]
          IN  IF ra.status # "ok" THEN ended(ra.status, a, b)
              ELSE IF rb.status # "ok" THEN ended(rb.status, ra.f, b)
              ELSE IF \E i \in 1..Len(weights.b) :
                        PyIndex(weights.b[i], Len(ra.f)) = 0
                THEN ended("IndexError", ra.f, rb.f)
              ELSE adapted(
                     [i \in 1..Len(weights.b) |->
                        ra.f[PyIndex(weights.b[i], Len(ra.f))]],
                     [i \in 1..Len(weights.b) |->
                        rb.f[PyIndex(weights.b[i], Len(rb.f))]], ra.f, rb.f)
      ELSE IF weights.ndim = 3 THEN
        IF Len(weights.bqs[1][1]) # Len(a)
          THEN ended("RuntimeError", a, b)
          ELSE adapted(Einsum(weights.bqs, a), Einsum(weights.bqs, b), a, b)
      ELSE ended("UnboundLocalError", a, b)

\* a forward call on the adapter
SkilledForwardCall(input, weights) ==
  /\ SkCalled
  /\ LET res == SkilledForward(sk_lora_a, sk_lora_b, sk_n_skills, sk_enabled,
                               sk_training_steps, sk_config.scaling,
                               input, weights)
     IN  /\ sk_lora_a' = res.lora_a
         /\ sk_lora_b' = res.lora_b
         /\ sk_ret' = [kind |-> "call", op |-> "forward", status |-> res.status,
                       input |-> input, weights |-> weights, out |-> res.out,
                       enabled |-> sk_enabled,
                       lora_a |-> sk_lora_a, lora_b |-> sk_lora_b]
  /\ UNCHANGED <<sk_n_skills, sk_enabled>>

SkNext ==
  \/ \E skill_index \in SkillIndices : GetSkillWeights(skill_index)
  \/ \E lora \in GivenLoras(sk_config.n_splits), skill_index \in SkillIndices :
       SetSkill(lora, skill_index)
  \/ \E lora \in GivenLoras(sk_config.n_splits) : AddSkill(lora)
  \/ SkEnable
  \/ SkDisable
  \/ \E input \in SkInputs(sk_config.n_splits), ndim \in 1..3 :
       \E weights \in ForwardWeights(ndim, Len(input), sk_config.n_splits,
                                     sk_n_skills) :
         SkilledForwardCall(input, weights)

(***************************************************************************)
(* ArrowTransform: the prototype of one layer and its two checks           *)
(***************************************************************************)
\* how many transform() calls are explored
MaxArrowCalls == 2

\* largest entry of lora_b
MaxArrowB == 2

ArrowRank == 2

ArrowConfigs == [ab_only : BOOLEAN, scale : BOOLEAN]

\* lora_a matrices whose columns are orthogonal and of integer length, so
\* that the singular vectors of A @ B are fractions
ArrowAs ==
  {<<<<3, 0 - 4>>, <<4, 3>>>>,
   <<<<1, 0>>, <<0, 1>>>>,
   <<<<0, 3>>, <<1, 0>>>>}

\* lora_b matrices: diagonal, the zero matrix of a fresh adapter included
ArrowBs ==
  {<<<<b1, 0>>, <<0, b2>>>> : b1, b2 \in 0..MaxArrowB}

Column(M, k) == [i \in 1..Len(M) |-> M[i][k]]

\* the length of an integer vector whose length is an integer
Length(v) ==
  LET sq == SumTo([i \in 1..Len(v) |-> v[i] * v[i]], Len(v))
  IN  CHOOSE n \in 0..sq : n * n = sq

\* the singular values of A @ B for A with orthogonal columns and diagonal B
SingularValue(A, B, k) == Abs(B[k][k]) * Length(Column(A, k))

\* the orders in which an SVD may list the singular vectors: descending
\* singular values, equal values in either order
SVDOrders(A, B) ==
  {o \in Permutations(1..ArrowRank) :
     \A k \in 1..ArrowRank - 1 :
       SingularValue(A, B, o[k]) >= SingularValue(A, B, o[k + 1])}

\* the sign an SVD gives each singular vector is the routine's choice
SVDSigns == [1..ArrowRank -> {0 - 1, 1}]

\* _low_rank_svd(A, B): U_W with its columns in order o and signs sg, and
\* Sigma_W
LowRankSVD(A, B, o, sg) ==
  [U_W |-> [k \in 1..ArrowRank |->
              [i \in 1..Len(A) |->
                 Frac(sg[k] * A[i][o[k]], Length(Column(A, o[k])))]],
   Sigma_W |-> [k \in 1..ArrowRank |-> SingularValue(A, B, o[k])]]

\* M @ v for an integer matrix and a vector of fractions
MatVec(M, v) ==
  [i \in 1..Len(M) |->
     SumSeq(Stack([j \in 1..Len(v) |-> RMul(R(M[i][j]), v[j])], Len(v)))]

SquaredNorm(v) ==
  SumSeq(Stack([i \in 1..Len(v) |-> RMul(v[i], v[i])], Len(v)))

\* atol + rtol * |1| of torch.allclose(ratio, ones, atol=1e-3)
AllcloseTolerance == RAdd(<<1, 1000>>, <<1, 100000>>)

\* torch.allclose(num / den, ones, atol=1e-3): a zero denominator gives nan
\* or inf, which is close to nothing
RatioAllclose(num, den) ==
  \A i \in 1..Len(num) :
    /\ den[i][1] # 0
    /\ ~RLess(AllcloseTolerance, RAbs(RSub(RDiv(num[i], den[i]), R(1))))

\* lines 1620-1655 for one parameter: the vector, the value and what the
\* two checks computed
ArrowPrototype(cfg, A, B, o, sg) ==
  LET W == Transpose(MatMul(A, B))
      svd == LowRankSVD(A, B, o, sg)
      top_value == R(svd.Sigma_W[1] * svd.Sigma_W[1])
      bottom_vector == svd.U_W[ArrowRank]
      top_vector == svd.U_W[1]
      WTW == MatMul(Transpose(W), W)
      den == [i \in 1..Len(top_vector) |-> RMul(top_vector[i], top_value)]
  IN  [top_vector |-> top_vector,
       top_value |-> top_value,
       allclose |-> RatioAllclose(MatVec(WTW, top_vector), den),
       is_top |-> RGeq(SquaredNorm(MatVec(WTW, top_vector)),
                       SquaredNorm(MatVec(WTW, bottom_vector)))]

\* _maybe_scale of one vector
MaybeScale(cfg, vector, value) ==
  IF cfg.scale
    THEN [i \in 1..Len(vector) |-> RMul(vector[i], value)]
    ELSE vector

ArIdle ==
  /\ ar_config = None
  /\ ar_A = <<>>
  /\ ar_B = <<>>
  /\ ar_vectors = {}
  /\ ar_store = {}
  /\ ar_calls = 0
  /\ ar_ret = None

ArInit ==
  /\ ar_config \in ArrowConfigs
  /\ ar_A \in ArrowAs
  /\ ar_B \in ArrowBs
  /\ ar_vectors = {}
  /\ ar_store = {}
  /\ ar_calls = 0
  /\ ar_ret = None

ArCalled(status, computed, allclose, is_top) ==
  /\ ar_calls' = ar_calls + 1
  /\ ar_ret' = [kind |-> "transform", status |-> status,
                computed |-> computed, allclose |-> allclose,
                is_top |-> is_top]
  /\ UNCHANGED <<ar_config, ar_A, ar_B>>
  /\ UNCHANGED notAr

\* ArrowTransform.transform on a library of one expert with one layer
ArrowPrototypeCall(persist, recompute, o, sg) ==
  /\ ar_calls < MaxArrowCalls
  /\ IF ar_store # {} /\ ~recompute
       THEN /\ ArCalled("ok", FALSE, FALSE, FALSE)
            /\ ar_vectors' = {}
            /\ UNCHANGED ar_store
     ELSE IF ~ar_config.ab_only
       THEN /\ ArCalled("AttributeError", FALSE, FALSE, FALSE)
            /\ ar_vectors' = {}
            /\ UNCHANGED ar_store
     ELSE LET p == ArrowPrototype(ar_config, ar_A, ar_B, o, sg)
              rec == [vector |-> p.top_vector, value |-> p.top_value,
                      proto |-> MaybeScale(ar_config, p.top_vector,
                                           p.top_value)]
          IN  IF ~p.is_top
                THEN /\ ArCalled("AssertionError", TRUE, p.allclose, FALSE)
                     /\ ar_vectors' = {}
                     /\ UNCHANGED ar_store
                ELSE /\ ArCalled("ok", TRUE, p.allclose, TRUE)
                     /\ ar_vectors' = {rec}
                     /\ ar_store' = IF persist THEN {rec} ELSE ar_store

ArNext ==
  \E persist, recompute \in BOOLEAN, o \in SVDOrders(ar_A, ar_B),
     sg \in SVDSigns :
    ArrowPrototypeCall(persist, recompute, o, sg)

(***************************************************************************)
(* Adapter views: SkilledLoRA.to_loras, SkilledLoRAView.from_loras and the *)
(* storage the factors of views and parents live in                        *)
(***************************************************************************)
\* how many operations on views and parents are explored
MaxViewOps == 3

\* largest number of skills add_skill may reach
MaxViewSkills == 3

\* the values written by the operations
ViewVals == {7, 8}

\* a tensor that is a view of element off of storage st
TensorRef(st, off) == [st |-> st, off |-> off]

\* the value a tensor reference reads
Deref(storages, ref) == storages[ref.st][ref.off]

\* an in-place write through a tensor reference (copy_, indexed assignment)
WriteInPlace(storages, ref, v) ==
  [storages EXCEPT ![ref.st][ref.off] = v]

NoSkilled == [a |-> 0, b |-> 0, n_skills |-> 0]

VwIdle ==
  /\ vw_heap = <<>>
  /\ vw_skilled = NoSkilled
  /\ vw_loras = <<>>
  /\ vw_mode = "None"
  /\ vw_ops = 0

\* either one SkilledLoRA with its two parameters, or LoRAs on one layer,
\* each with parameters of its own
VwInit ==
  /\ vw_ops = 0
  /\ \E n \in 1..2 :
       \/ /\ vw_mode = "skilled"
          /\ vw_heap = <<[i \in 1..n |-> i], [i \in 1..n |-> i + 2]>>
          /\ vw_skilled = [a |-> 1, b |-> 2, n_skills |-> n]
          /\ vw_loras = <<>>
       \/ /\ vw_mode = "loras"
          /\ vw_heap = [k \in 1..2 * n |-> <<k>>]
          /\ vw_skilled = NoSkilled
          /\ vw_loras = [j \in 1..n |->
                           [a |-> TensorRef(2 * j - 1, 1),
                            b |-> TensorRef(2 * j, 1)]]

\* SkilledLoRA.to_loras: each LoRAView gets lora_a[i].squeeze() and
\* lora_b[i].squeeze(), views of the parameter's storage
ToLoras ==
  /\ vw_mode = "skilled"
  /\ vw_ops < MaxViewOps
  /\ vw_ops' = vw_ops + 1
  /\ vw_loras' = [i \in 1..vw_skilled.n_skills |->
                    [a |-> TensorRef(vw_skilled.a, i),
                     b |-> TensorRef(vw_skilled.b, i)]]
  /\ vw_mode' = "to_loras"
  /\ UNCHANGED <<vw_heap, vw_skilled>>
  /\ UNCHANGED notVw

\* SkilledLoRAView.from_loras: torch.stack allocates new tensors holding
\* the values of the given factors
FromLoras ==
  /\ vw_mode = "loras"
  /\ vw_ops < MaxViewOps
  /\ vw_ops' = vw_ops + 1
  /\ LET n == Len(vw_loras)
         stacked_a == [j \in 1..n |-> Deref(vw_heap, vw_loras[j].a)]
         stacked_b == [j \in 1..n |-> Deref(vw_heap, vw_loras[j].b)]
     IN  /\ vw_heap' = vw_heap \o <<stacked_a, stacked_b>>
         /\ vw_skilled' = [a |-> Len(vw_heap) + 1, b |-> Len(vw_heap) + 2,
                           n_skills |-> n]
  /\ vw_mode' = "from_loras"
  /\ UNCHANGED vw_loras
  /\ UNCHANGED notVw

\* set_skill(lora, skill_index) for 0 <= skill_index < lora_a.shape[0]: the
\* factors of lora are written into the parameters in place
ViewSetSkill(skill_index, va, vb) ==
  /\ vw_skilled.n_skills > 0
  /\ vw_ops < MaxViewOps
  /\ skill_index < Len(vw_heap[vw_skilled.a])
  /\ vw_ops' = vw_ops + 1
  /\ vw_heap' =
       WriteInPlace(WriteInPlace(vw_heap,
                                 TensorRef(vw_skilled.a, skill_index + 1), va),
                    TensorRef(vw_skilled.b, skill_index + 1), vb)
  /\ UNCHANGED <<vw_skilled, vw_loras, vw_mode>>
  /\ UNCHANGED notVw

\* add_skill(lora): lora_a.data and lora_b.data are rebound to the tensors
\* torch.cat allocates, then set_skill writes the new last skill
ViewAddSkill(va, vb) ==
  /\ vw_skilled.n_skills \in 1..MaxViewSkills - 1
  /\ vw_ops < MaxViewOps
  /\ vw_ops' = vw_ops + 1
  /\ LET new_a == Len(vw_heap) + 1
         new_b == Len(vw_heap) + 2
         grown == vw_heap \o <<Append(vw_heap[vw_skilled.a], 0),
                               Append(vw_heap[vw_skilled.b], 0)>>
         at == vw_skilled.n_skills + 1
     IN  /\ vw_heap' = WriteInPlace(WriteInPlace(grown,
                                                 TensorRef(new_a, at), va),
                                    TensorRef(new_b, at), vb)
         /\ vw_skilled' = [a |-> new_a, b |-> new_b, n_skills |-> at]
  /\ UNCHANGED <<vw_loras, vw_mode>>
  /\ UNCHANGED notVw

\* loras[j].load_lora_weights(state_dict): copy_ into lora_a.data and
\* lora_b.data, in place
ViewLoadLoraWeights(j, va, vb) ==
  /\ j \in 1..Len(vw_loras)
  /\ vw_ops < MaxViewOps
  /\ vw_ops' = vw_ops + 1
  /\ vw_heap' = WriteInPlace(WriteInPlace(vw_heap, vw_loras[j].a, va),
                             vw_loras[j].b, vb)
  /\ UNCHANGED <<vw_skilled, vw_loras, vw_mode>>
  /\ UNCHANGED notVw

VwNext ==
  \/ ToLoras
  \/ FromLoras
  \/ \E i \in 0..MaxViewSkills - 1, va, vb \in ViewVals :
       ViewSetSkill(i, va, vb)
  \/ \E va, vb \in ViewVals : ViewAddSkill(va, vb)
  \/ \E j \in 1..MaxViewSkills, va, vb \in ViewVals :
       ViewLoadLoraWeights(j, va, vb)

(***************************************************************************)
(* Specifications                                                          *)
(***************************************************************************)
LoRAIdle ==
  /\ config = None
  /\ in_features = 0
  /\ out_features = 0
  /\ weight = <<>>
  /\ lora_a = <<>>
  /\ lora_b = <<>>
  /\ merged_with_layer = FALSE
  /\ enabled = FALSE
  /\ merge_calls = 0
  /\ b_written = FALSE
  /\ ret = None

\* one LoRA adapter on one linear layer
Init ==
  /\ LoRAInit /\ LibIdle /\ LoopIdle /\ CacheIdle /\ PersistIdle
  /\ HashIdle /\ HeapIdle /\ ParIdle /\ SkIdle /\ ArIdle /\ VwIdle

Next == LoRANext

Spec == Init /\ [][Next]_vars

\* one merge transform applied to one library
MergeSpecInit ==
  /\ MergeInit /\ LoRAIdle /\ LoopIdle /\ CacheIdle /\ PersistIdle
  /\ HashIdle /\ HeapIdle /\ ParIdle /\ SkIdle /\ ArIdle /\ VwIdle

MergeSpecNext == MergeNext

MergeSpec == MergeSpecInit /\ [][MergeSpecNext]_vars

\* the optimisation loop of one layer
LoopSpecInit ==
  /\ LoopInit /\ LoRAIdle /\ LibIdle /\ CacheIdle /\ PersistIdle
  /\ HashIdle /\ HeapIdle /\ ParIdle /\ SkIdle /\ ArIdle /\ VwIdle

LoopSpecNext == LoopNext

LoopSpec == LoopSpecInit /\ [][LoopSpecNext]_vars

\* fetch / transform calls on a library whose experts come and go
CacheSpecInit ==
  /\ CacheInit /\ LoRAIdle /\ LibIdle /\ LoopIdle /\ PersistIdle
  /\ HashIdle /\ HeapIdle /\ ParIdle /\ SkIdle /\ ArIdle /\ VwIdle

CacheSpecNext == CacheNext

CacheSpec == CacheSpecInit /\ [][CacheSpecNext]_vars

\* transform() invocations of one persisting transform on one library
PersistSpecInit ==
  /\ PersistInit /\ LoRAIdle /\ LibIdle /\ LoopIdle /\ CacheIdle
  /\ HashIdle /\ HeapIdle /\ ParIdle /\ SkIdle /\ ArIdle /\ VwIdle

PersistSpecNext == PersistNext

PersistSpec == PersistSpecInit /\ [][PersistSpecNext]_vars

\* the save names of two configs of one class
HashSpecInit ==
  /\ HashInit /\ LoRAIdle /\ LibIdle /\ LoopIdle /\ CacheIdle
  /\ PersistIdle /\ HeapIdle /\ ParIdle /\ SkIdle /\ ArIdle /\ VwIdle

HashSpecNext == HashNext

HashSpec == HashSpecInit /\ [][HashSpecNext]_vars

\* one merge or projection call on the objects of a library
HeapSpecInit ==
  /\ HeapInit /\ LoRAIdle /\ LibIdle /\ LoopIdle /\ CacheIdle
  /\ PersistIdle /\ HashIdle /\ ParIdle /\ SkIdle /\ ArIdle /\ VwIdle

HeapSpecNext == HeapNext

HeapSpec == HeapSpecInit /\ [][HeapSpecNext]_vars

\* merges and one parallel call on a list of adapters
ParSpecInit ==
  /\ ParInit /\ LoRAIdle /\ LibIdle /\ LoopIdle /\ CacheIdle
  /\ PersistIdle /\ HashIdle /\ HeapIdle /\ SkIdle /\ ArIdle /\ VwIdle

ParSpecNext == ParNext

ParSpec == ParSpecInit /\ [][ParSpecNext]_vars

\* calls on one SkilledLoRA
SkSpecInit ==
  /\ SkInit /\ LoRAIdle /\ LibIdle /\ LoopIdle /\ CacheIdle
  /\ PersistIdle /\ HashIdle /\ HeapIdle /\ ParIdle /\ ArIdle /\ VwIdle

SkSpecNext == SkNext

SkSpec == SkSpecInit /\ [][SkSpecNext]_vars

\* ArrowTransform on one layer of one expert
ArSpecInit ==
  /\ ArInit /\ LoRAIdle /\ LibIdle /\ LoopIdle /\ CacheIdle
  /\ PersistIdle /\ HashIdle /\ HeapIdle /\ ParIdle /\ SkIdle /\ VwIdle

ArSpecNext == ArNext

ArSpec == ArSpecInit /\ [][ArSpecNext]_vars

\* views of adapters and operations on views and parents
VwSpecInit ==
  /\ VwInit /\ LoRAIdle /\ LibIdle /\ LoopIdle /\ CacheIdle
  /\ PersistIdle /\ HashIdle /\ HeapIdle /\ ParIdle /\ SkIdle /\ ArIdle

VwSpecNext == VwNext

VwSpec == VwSpecInit /\ [][VwSpecNext]_vars

(***************************************************************************)
(* Properties of the LoRA adapter                                          *)
(***************************************************************************)
\* a step that folds an enabled, unmerged adapter into its layer
FirstMergeStep == ~merged_with_layer /\ merged_with_layer' /\ enabled

\* C1: when an enabled, unmerged adapter is merged, for every input the
\* layer's output after the merge equals the adapter's forward output before
\* the merge, and forward after the merge equals the layer's output.
C1_MergePreservesOutput ==
  [][FirstMergeStep =>
       \A x \in Inputs :
         /\ LayerOut(weight', x) = Forward(x)
         /\ Forward(x)' = LayerOut(weight', x)]_vars

\* C2: once the adapter has been merged, further merge_with_layer() calls
\* leave the base weight at its value after the first call.
C2_FoldedAtMostOnce == [][merged_with_layer => weight' = weight]_vars

\* C3: whenever the adapter is merged or disabled, forward returns exactly
\* the wrapped layer's output, and a merged adapter stays merged.
C3_PassThrough ==
  /\ [](merged_with_layer \/ ~enabled =>
          \A x \in Inputs : Forward(x) = LayerOut(weight, x))
  /\ [][merged_with_layer => merged_with_layer']_vars

\* forward was called on a merged, re-enabled adapter whose low-rank term for
\* that input is not zero, and the caller received the layer's output
C3_Witness ==
  /\ merged_with_layer
  /\ enabled
  /\ ret.kind = "forward"
  /\ AdapterOut(ret.input) # ZeroMatrix(1, out_features)
  /\ ret.output = ret.layer_out

\* C4: an adapter built with lora_init_b_random = False has lora_b = 0 and
\* forward(x) = layer(x) for every x, as long as lora_b has not been written.
C4_NoOpAtAttach ==
  (~config.lora_init_b_random /\ ~b_written) =>
     /\ lora_b = ZeroMatrix(config.lora_rank, out_features)
     /\ \A x \in Inputs : Forward(x) = LayerOut(weight, x)

\* forward was called on a fresh, enabled, unmerged default adapter with an
\* input that lora_a does not annihilate
C4_Witness ==
  /\ ~config.lora_init_b_random
  /\ ~b_written
  /\ enabled
  /\ ~merged_with_layer
  /\ ret.kind = "forward"
  /\ MatMul(ret.input, lora_a) # ZeroMatrix(1, config.lora_rank)
  /\ ret.output = ret.layer_out

(***************************************************************************)
(* Properties of the merge transforms                                      *)
(***************************************************************************)
\* the sum of f[i] over the index set S, taken in no particular order
RECURSIVE SumOver(_, _)
SumOver(S, f) ==
  IF S = {} THEN R(0)
  ELSE LET i == CHOOSE j \in S : TRUE
       IN  RAdd(f[i], SumOver(S \ {i}, f))

\* experts that agree on config type and on the key set of their weights
Compatible(experts) ==
  \A i, j \in 1..Len(experts) :
    /\ experts[i].expert_config.type = experts[j].expert_config.type
    /\ DOMAIN experts[i].expert_weights = DOMAIN experts[j].expert_weights

\* the library enumerated in the order p
Permuted(experts, p) == [i \in 1..Len(experts) |-> experts[p[i]]]

\* C5: with weights=None and N >= 1 compatible experts the merged tensor of
\* every key is the elementwise sum of the experts' tensors divided by N,
\* whatever the order in which the library lists the experts.
C5_UniformAverage ==
  (/\ result.kind = "result"
   /\ transform_config.kind = "weighted_linear_merge"
   /\ transform_config.weights.kind = "None"
   /\ Len(library) >= 1
   /\ Compatible(library)) =>
     /\ result.status = "ok"
     /\ \A k \in DOMAIN library[1].expert_weights :
          \A n \in 1..TensorLen :
            result.value.expert_weights[k][n] =
              RDiv(SumOver(1..Len(library),
                           [i \in 1..Len(library) |->
                              library[i].expert_weights[k][n]]),
                   R(Len(library)))
     /\ \A p \in Permutations(1..Len(library)) :
          LET other == WLMTransform(Permuted(library, p), transform_config)
          IN  /\ other.status = "ok"
              /\ other.value.expert_weights = result.value.expert_weights

\* two compatible experts with different tensors were averaged
C5_Witness ==
  /\ result.kind = "result"
  /\ transform_config.kind = "weighted_linear_merge"
  /\ transform_config.weights.kind = "None"
  /\ Len(library) = 2
  /\ Compatible(library)
  /\ library[1].expert_weights["layer.lora_a"][1] = R(2)
  /\ library[2].expert_weights["layer.lora_a"][1] = R(0 - 1)
  /\ result.status = "ok"
  /\ result.value.expert_weights["layer.lora_a"][1] = <<1, 2>>

\* experts whose weight mappings all have the same key set
IdenticalKeys(experts) ==
  \A i, j \in 1..Len(experts) :
    DOMAIN experts[i].expert_weights = DOMAIN experts[j].expert_weights

\* a finished TiesMerge call with top_k = 1.0 and only_sparsify = False on a
\* non-empty library with identical key sets
TiesTopKOneCase ==
  /\ result.kind = "result"
  /\ transform_config.kind = "ties_merge"
  /\ transform_config.top_k = R(1)
  /\ ~transform_config.only_sparsify
  /\ Len(library) >= 1
  /\ IdenticalKeys(library)

\* the values the experts hold at element n of key k
ValuesAt(k, n) == [i \in 1..Len(library) |-> library[i].expert_weights[k][n]]

UnconditionalMean(k, n) ==
  RDiv(SumOver(1..Len(library), ValuesAt(k, n)), R(Len(library)))

\* the experts whose value at (k, n) has the sign of the sum of all values
SignAgreeing(k, n) ==
  {i \in 1..Len(library) :
     RSign(ValuesAt(k, n)[i]) = RSign(SumOver(1..Len(library), ValuesAt(k, n)))}

\* C6 (as claimed): with top_k = 1.0 every element of the merged expert is
\* the unconditional mean of that element over all experts.
C6_TopKOneIsMean ==
  TiesTopKOneCase =>
     /\ result.status = "ok"
     /\ \A k \in DOMAIN library[1].expert_weights :
          \A n \in 1..TensorLen :
            result.value.expert_weights[k][n] = UnconditionalMean(k, n)

\* C6 (amended): with top_k = 1.0 nothing is trimmed and every element of
\* the merged expert is the mean over the experts whose value has the sign
\* of the sum of all values there (0 when the sum is 0); where all experts'
\* values share one nonzero sign this is the unconditional mean.
C6_TopKOneSignConsensus ==
  TiesTopKOneCase =>
     /\ result.status = "ok"
     /\ \A k \in DOMAIN library[1].expert_weights :
          \A n \in 1..TensorLen :
            LET agreeing == SignAgreeing(k, n)
                count == IF agreeing = {} THEN 1 ELSE Cardinality(agreeing)
            IN  /\ result.value.expert_weights[k][n] =
                     RDiv(SumOver(agreeing, ValuesAt(k, n)), R(count))
                /\ (\E sg \in {0 - 1, 1} :
                      \A i \in 1..Len(library) : RSign(ValuesAt(k, n)[i]) = sg)
                   => result.value.expert_weights[k][n] = UnconditionalMean(k, n)

\* two experts disagree in sign on lora_a and agree on lora_b
C6_Witness ==
  /\ TiesTopKOneCase
  /\ Len(library) = 2
  /\ DOMAIN library[1].expert_weights = AllKeys
  /\ ValuesAt("layer.lora_a", 1) = <<R(2), R(0 - 1)>>
  /\ ValuesAt("layer.lora_b", 1) = <<R(0 - 1), R(0 - 1)>>
  /\ result.status = "ok"
  /\ result.value.expert_weights["layer.lora_a"][1] = R(2)
  /\ result.value.expert_weights["layer.lora_b"][1] = R(0 - 1)

\* C7: for every top_k and every set of experts the realized kept fraction
\* of each expert is within 1e-4 of top_k, so the assertion of
\* TiesMerge.transform never fails.
C7_KeptFractionLaw ==
  (result.kind = "result" /\ transform_config.kind = "ties_merge") =>
     result.status # "AssertionError"

(***************************************************************************)
(* Properties of the early-stopping loop                                   *)
(***************************************************************************)
\* step j failed to decrease the loss by more than min_delta relative to the
\* loss of step j - 1 (a rise is a failure; the first step has no previous
\* loss and is an improvement)
FailedToImprove(j) ==
  /\ j >= 2
  /\ ~RLess(MinDelta, RSub(losses[j - 1], losses[j]))

\* the Patience steps ending at step n all failed to improve
PatienceExhaustedAt(n) ==
  /\ n >= Patience
  /\ \A j \in (n - Patience + 1)..n : FailedToImprove(j)

\* C8: the loop stops at the first step at which the loss has failed to
\* improve on 5 consecutive steps, or after `iter` steps, whichever comes
\* first, and never performs more than `iter` steps.
C8_StopsAtFirstOf ==
  /\ step <= loop_iter
  /\ \A n \in 1..(step - 1) : ~PatienceExhaustedAt(n)
  /\ loop_pc = "done" <=> (step = loop_iter \/ PatienceExhaustedAt(step))

(***************************************************************************)
(* Properties of the cached auxiliary data                                 *)
(***************************************************************************)
\* a step that is a fetch or transform call of the given transform
CallStep(transform) == calls' = calls + 1 /\ cache_transform = transform

\* the cached mapping has one entry per expert of the library
CacheComplete == Cardinality(DOMAIN aux_data) = Cardinality(DOMAIN lib_experts)

\* C9: SVDEmbeddingTransform.fetch returns the cached mapping exactly when
\* its size equals the number of experts and raises ValueError otherwise;
\* transform(recompute=False) on a complete cache returns it without
\* computing or writing; on a cache of another size transform computes the
\* embeddings of all experts and never surfaces the ValueError.
C9_SVDCacheGate ==
  [][CallStep("svd_embedding") =>
       /\ outcome'.op = "fetch" =>
            IF CacheComplete
              THEN outcome'.status = "ok" /\ outcome'.value = aux_data
              ELSE outcome'.status = "ValueError"
       /\ (outcome'.op = "transform" /\ CacheComplete /\ ~outcome'.recompute) =>
            /\ outcome'.status = "ok"
            /\ outcome'.value = aux_data
            /\ outcome'.computed = {}
            /\ aux_data' = aux_data
       /\ (outcome'.op = "transform" /\ ~CacheComplete) =>
            /\ outcome'.status # "ValueError"
            /\ outcome'.computed = DOMAIN lib_experts
            /\ outcome'.status = "ok" =>
                 outcome'.value = [n \in DOMAIN lib_experts |-> Payload(n)]]_vars

\* transform(persist=False, recompute=False) met a partial cache and
\* returned freshly computed embeddings for every expert
C9_Witness ==
  /\ cache_transform = "svd_embedding"
  /\ outcome.kind = "call"
  /\ outcome.op = "transform"
  /\ ~outcome.recompute
  /\ ~outcome.persist
  /\ Cardinality(DOMAIN aux_data) > 0
  /\ Cardinality(DOMAIN aux_data) < Cardinality(DOMAIN lib_experts)
  /\ outcome.status = "ok"
  /\ outcome.computed = DOMAIN lib_experts
  /\ DOMAIN outcome.value = DOMAIN lib_experts

\* C10: HiddenStateComputer.transform(recompute=False) returns cached
\* centroids without recomputation only if the cache has exactly one entry
\* per expert; a non-empty cache with fewer entries triggers recomputation.
C10_HiddenStateCacheGate ==
  [][(CallStep("hidden_state_computer") /\ outcome'.op = "transform"
        /\ ~outcome'.recompute) =>
       /\ (outcome'.status = "ok" /\ outcome'.computed = {}) => CacheComplete
       /\ (Cardinality(DOMAIN aux_data) > 0 /\ ~CacheComplete) =>
            outcome'.computed = DOMAIN lib_experts]_vars

(***************************************************************************)
(* Properties of WeightedLinearMerge with a weights mapping                *)
(***************************************************************************)
\* a WeightedLinearMerge call with a weights mapping has returned or raised
WeightedCallDone ==
  /\ result.kind = "result"
  /\ transform_config.kind = "weighted_linear_merge"
  /\ transform_config.weights.kind = "dict"

\* every key of the merged expert holds sum_i weight_i * expert_i
WeightedSumReturned ==
  /\ result.status = "ok"
  /\ \A k \in DOMAIN library[1].expert_weights :
       \A n \in 1..TensorLen :
         result.value.expert_weights[k][n] =
           SumOver(1..Len(library),
                   [i \in 1..Len(library) |->
                      RMul(transform_config.weights.items[library[i].name],
                           library[i].expert_weights[k][n])])

\* C14: with a weights mapping, a key set that differs from the expert
\* names makes the call fail without returning an expert; a matching key
\* set makes it succeed, whatever the weights sum to, and return for every
\* key the sum of weight_i * expert_i, not divided by the number of experts.
C14_WeightMapping ==
  WeightedCallDone =>
    IF DOMAIN transform_config.weights.items # Names(library)
      THEN result.status # "ok"
      ELSE WeightedSumReturned

\* C14 for the libraries the transform accepts: the same, where a matching
\* key set leads to success on a non-empty library of compatible experts.
C14_WeightMappingCompatible ==
  WeightedCallDone =>
    IF DOMAIN transform_config.weights.items # Names(library)
      THEN result.status # "ok"
      ELSE (Len(library) >= 1 /\ Compatible(library)) => WeightedSumReturned

\* two compatible experts were merged with weights 1 and 1/2
C14_Witness ==
  /\ WeightedCallDone
  /\ Len(library) = 2
  /\ Compatible(library)
  /\ DOMAIN transform_config.weights.items = Names(library)
  /\ transform_config.weights.items["e1"] = <<1, 1>>
  /\ transform_config.weights.items["e2"] = <<1, 2>>
  /\ library[1].expert_weights["layer.lora_a"][1] = R(2)
  /\ library[2].expert_weights["layer.lora_a"][1] = R(0 - 1)
  /\ result.status = "ok"
  /\ result.value.expert_weights["layer.lora_a"][1] = <<3, 2>>

\* some expert after the first differs from the first in config type or in
\* the key set of its weights
OffendingExpert(i) ==
  /\ i \in 2..Len(library)
  /\ \/ library[i].expert_config.type # library[1].expert_config.type
     \/ DOMAIN library[i].expert_weights # DOMAIN library[1].expert_weights

LibraryConfigs == {heap.experts[lib_addrs[i]].config : i \in 1..Len(lib_addrs)}

LibraryTensors ==
  UNION {{heap.experts[lib_addrs[i]].weights[k] :
            k \in DOMAIN heap.experts[lib_addrs[i]].weights} :
           i \in 1..Len(lib_addrs)}

\* C16: WeightedLinearMerge.transform, TiesMerge.transform and
\* ExpertProjector._project leave the weights, name and config of every
\* library expert as they were, also when the call fails partway; what is
\* returned is a copy that shares no object with the library.
C16_LibraryUnchanged ==
  [][/\ lib_addrs' = lib_addrs
     /\ \A i \in 1..Len(lib_addrs) :
          /\ heap'.experts[lib_addrs[i]] = heap.experts[lib_addrs[i]]
          /\ ExpertAt(heap', lib_addrs[i]) = ExpertAt(heap, lib_addrs[i])
     /\ frame_ret'.status = "ok" =>
          /\ frame_ret'.value \notin {lib_addrs[i] : i \in 1..Len(lib_addrs)}
          /\ heap'.experts[frame_ret'.value].config \notin LibraryConfigs
          /\ \A k \in DOMAIN heap'.experts[frame_ret'.value].weights :
               heap'.experts[frame_ret'.value].weights[k] \notin LibraryTensors
    ]_vars

\* a merge returned an expert whose name, tie_params and tensors differ
\* from those of the first library expert it was copied from
C16_Witness ==
  /\ frame_ret.kind = "result"
  /\ frame_ret.status = "ok"
  /\ Len(lib_addrs) = 2
  /\ ExpertAt(heap, frame_ret.value).name # ExpertAt(heap, lib_addrs[1]).name
  /\ ExpertAt(heap, lib_addrs[1]).expert_config.tie_params # "None"
  /\ ExpertAt(heap, frame_ret.value).expert_config.tie_params = "None"
  /\ ExpertAt(heap, frame_ret.value).expert_weights
       # ExpertAt(heap, lib_addrs[1]).expert_weights

(***************************************************************************)
(* Properties of the parallel entry points                                 *)
(***************************************************************************)
\* C17: LoRA.parallel_linear_forward and
\* SkilledLoRA.parallel_linear_weighted_forward raise, and compute no
\* output, when an adapter of the list has been merged into its layer or
\* when the adapters do not all wrap the same layer.
C17_ParallelFailsFast ==
  (/\ par_ret.kind = "call"
   /\ AnyMerged(par_loras) \/ DifferentLayers(par_loras))
    => /\ par_ret.status # "ok"
       /\ par_ret.output = <<>>

\* the weighted call has returned an output
WeightedReturned ==
  /\ par_entry = "parallel_linear_weighted_forward"
  /\ par_ret.kind = "call"
  /\ par_ret.status = "ok"

\* the adapter of the list that serves example b
ServingLoRA(b) == IF Len(par_loras) = 1 THEN par_loras[1] ELSE par_loras[b]

C30_ParallelEqualsForward ==
  (/\ par_entry = "parallel_linear_forward"
   /\ par_ret.kind = "call"
   /\ ~AnyMerged(par_loras)
   /\ ~DifferentLayers(par_loras)
   /\ Len(par_loras) \in {1, Len(par_input.x)})
    => /\ par_ret.status = "ok"
       /\ \A b \in 1..Len(par_input.x) :
            par_ret.output[b] =
              ParForward(IF Len(par_loras) = 1 THEN par_loras[1]
                         ELSE par_loras[b], par_weights, par_input.x[b])

(***************************************************************************)
(* Properties of the persisting transforms                                 *)
(***************************************************************************)
\* the entries of the store written by the latest invocation
WrittenByLast(st) == {e \in st : e.by = last.inv}

\* C11: with persist=True every add_auxiliary_data call of an invocation
\* uses force=True and all of them are made inside a single batched_commit
\* scope, so an invocation that fails leaves none of its auxiliary data in
\* the library; with persist=False no add_auxiliary_data call is made.
C11_SingleAtomicScope ==
  last.kind = "invocation" =>
    /\ Len(last.scopes) <= 1
    /\ \A j \in 1..Len(last.scopes) :
         \A k \in 1..Len(last.scopes[j]) : last.scopes[j][k].force
    /\ last.status # "ok" => WrittenByLast(store) = {}
    /\ ~last.persist => last.scopes = <<>> /\ WrittenByLast(store) = {}

\* C20: an ArrowTransform whose tie_op is neither 'concat' nor 'sum' raises
\* on every invocation that computes prototypes, whether or not the library
\* has tied parameters, and returns no prototypes computed under it.
C20_InvalidTieOpRaises ==
  (/\ last.kind = "invocation"
   /\ pt_transform = "arrow"
   /\ pt_config.tie_op \notin {"concat", "sum"})
    => (last.status = "ok" => last.computed = {})

(***************************************************************************)
(* Properties of save_name                                                 *)
(***************************************************************************)
\* the number a numeric value stands for
Num(x) == IF x.t = "bool" THEN (IF x.v THEN 1 ELSE 0) ELSE x.v

IsNum(x) == x.t \in {"int", "float", "bool"}

DictKeys(items) == {items[j][1] : j \in 1..Len(items)}

DictGet(items, k) == items[CHOOSE j \in 1..Len(items) : items[j][1] = k][2]

\* Python's ==
RECURSIVE PyEq(_, _)
PyEq(x, y) ==
  IF IsNum(x) /\ IsNum(y) THEN Num(x) = Num(y)
  ELSE IF x.t # y.t THEN FALSE
  ELSE CASE x.t = "NoneType" -> TRUE
         [] x.t = "str" -> x.v = y.v
         [] x.t \in {"list", "tuple"} ->
              /\ Len(x.v) = Len(y.v)
              /\ \A j \in 1..Len(x.v) : PyEq(x.v[j], y.v[j])
         [] x.t = "dict" ->
              /\ DictKeys(x.v) = DictKeys(y.v)
              /\ \A k \in DictKeys(x.v) :
                   PyEq(DictGet(x.v, k), DictGet(y.v, k))

\* the same type and value; for dicts, the same mapping
RECURSIVE SameValue(_, _)
SameValue(x, y) ==
  IF x.t # y.t THEN FALSE
  ELSE IF x.t = "dict"
    THEN /\ DictKeys(x.v) = DictKeys(y.v)
         /\ \A k \in DictKeys(x.v) :
              SameValue(DictGet(x.v, k), DictGet(y.v, k))
    ELSE IF x.t \in {"list", "tuple"}
      THEN /\ Len(x.v) = Len(y.v)
           /\ \A j \in 1..Len(x.v) : SameValue(x.v[j], y.v[j])
      ELSE x.v = y.v

FieldsEqual(p, q) ==
  \A i \in 1..Len(p.fields) : PyEq(p.fields[i], q.fields[i])

FieldsSame(p, q) ==
  \A i \in 1..Len(p.fields) : SameValue(p.fields[i], q.fields[i])

AutoName(p) == Lower(p.class) \o "-" \o ParamHash(p)

\* C12: two configs of one class with equal field values (dicts equal as
\* mappings) have the same save_name; a config whose name is set has that
\* name as save_name, any other has the lower-cased class name, '-' and the
\* hash of the field values.
C12_EqualConfigsSameName ==
  save_names.kind = "names" =>
    /\ FieldsEqual(cfg_p, cfg_q) => save_names.p = save_names.q
    /\ IF cfg_p.fields[1].t # "NoneType"
         THEN save_names.p = cfg_p.fields[1].v
         ELSE save_names.p = AutoName(cfg_p)

\* C12 as the code has it: configs whose fields have the same type and
\* value (dicts the same mapping) have the same save_name; a non-empty name
\* is the save_name, a name of None or '' gives the class name and hash.
C12_SameConfigsSameName ==
  save_names.kind = "names" =>
    /\ FieldsSame(cfg_p, cfg_q) => save_names.p = save_names.q
    /\ IF cfg_p.fields[1].t = "str" /\ cfg_p.fields[1].v # ""
         THEN save_names.p = cfg_p.fields[1].v
         ELSE save_names.p = AutoName(cfg_p)

\* two unnamed configs with the same dict in different insertion orders
\* got their save names
C12_Witness ==
  /\ save_names.kind = "names"
  /\ cfg_p.fields[1] = PyNone
  /\ cfg_q.fields[1] = PyNone
  /\ cfg_p.fields[2].t = "dict"
  /\ cfg_p.fields[2] # cfg_q.fields[2]
  /\ FieldsSame(cfg_p, cfg_q)
  /\ save_names.p = save_names.q

\* C13: with md5 injective, two configs of one class without explicit name
\* that differ in the value of some field have different save names.
C13_DifferentConfigsDifferentName ==
  (/\ save_names.kind = "names"
   /\ cfg_p.fields[1] = PyNone
   /\ cfg_q.fields[1] = PyNone
   /\ ~FieldsEqual(cfg_p, cfg_q))
    => save_names.p # save_names.q

(***************************************************************************)
(* Properties of SkilledLoRA                                               *)
(***************************************************************************)
\* a step that is a get_skill_weights or set_skill call with a skill index
\* outside [0, n_skills)
OutOfRangeCall ==
  /\ sk_calls' = sk_calls + 1
  /\ sk_ret' # None
  /\ sk_ret'.op \in {"get_skill_weights", "set_skill"}
  /\ sk_ret'.skill_index \notin 0..(sk_n_skills - 1)

\* C18: get_skill_weights and set_skill raise ValueError for every integer
\* skill index outside [0, n_skills), negative indices included, and leave
\* all stored skill factors unchanged when they raise.
C18_SkillIndexOutOfRange ==
  [][OutOfRangeCall =>
       /\ sk_ret'.status = "ValueError"
       /\ sk_lora_a' = sk_lora_a
       /\ sk_lora_b' = sk_lora_b]_vars

\* the adapter term the three weight forms stand for: for batch element b
\* the factors are the combination of the stacked factors fa, fb under the
\* weights of b (one-hot at the index for the 1-D form, the same mixture in
\* every split for the 2-D form), applied bilinearly
MixtureOf(weights, b, p, n) ==
  IF weights.ndim = 1 THEN [s \in 1..n |-> IF s = weights.b[b] + 1 THEN 1 ELSE 0]
  ELSE IF weights.ndim = 2 THEN weights.bs[b]
  ELSE weights.bqs[b][p]

Combined(weights, f, bs, q) ==
  [b \in 1..bs |->
     [p \in 1..q |->
        SumTo([s \in 1..Len(f) |-> MixtureOf(weights, b, p, Len(f))[s] * f[s][p]],
              Len(f))]]

\* a forward call on an enabled adapter whose weights fit its skills
ForwardDone ==
  /\ sk_ret # None
  /\ sk_ret.op = "forward"
  /\ sk_ret.enabled
  /\ Len(sk_ret.lora_a) = sk_n_skills
  /\ (sk_ret.weights.ndim = 1) =>
       (\A b \in 1..Len(sk_ret.weights.b) : sk_ret.weights.b[b] < sk_n_skills)

\* C19: forward returns an output for each of the three weight forms (1-D
\* skill indices, 2-D per-example mixtures, 3-D per-example per-split
\* mixtures), and the adapter term is the per-example weighted combination
\* of the stacked factors applied bilinearly.
C19_ForwardAcceptsAllWeightForms ==
  ForwardDone =>
    /\ sk_ret.status = "ok"
    /\ sk_ret.out =
         MatAdd(LayerOut(InitialWeight(sk_config.n_splits, sk_config.n_splits),
                         sk_ret.input),
                Bilinear(sk_ret.input,
                         Combined(sk_ret.weights, sk_ret.lora_a,
                                  Len(sk_ret.input), sk_config.n_splits),
                         Combined(sk_ret.weights, sk_ret.lora_b,
                                  Len(sk_ret.input), sk_config.n_splits),
                         sk_config.scaling))

\* a step that is a forward call with 1-D skill indices, all in range, on
\* an enabled adapter that holds two or more skills with different factors
IndexedForwardStep ==
  /\ sk_calls' = sk_calls + 1
  /\ sk_ret' # None
  /\ sk_ret'.op = "forward"
  /\ sk_ret'.weights.ndim = 1
  /\ sk_enabled
  /\ sk_n_skills >= 2
  /\ Len(sk_lora_a) = sk_n_skills
  /\ Len(sk_lora_b) = sk_n_skills
  /\ \E s, t \in 1..sk_n_skills :
       sk_lora_a[s] # sk_lora_a[t] \/ sk_lora_b[s] # sk_lora_b[t]
  /\ \A i \in 1..Len(sk_ret'.weights.b) :
       sk_ret'.weights.b[i] \in 0..(sk_n_skills - 1)

\* C23: forward with a 1-D tensor of skill indices leaves lora_a and lora_b
\* unchanged, and the adapter output of batch element i is computed from
\* the factors of skill weights[i], on every forward call, the first one
\* included.
C23_IndexedForwardKeepsSkills ==
  [][IndexedForwardStep =>
       /\ sk_lora_a' = sk_lora_a
       /\ sk_lora_b' = sk_lora_b
       /\ sk_ret'.status = "ok"
       /\ sk_ret'.out =
            MatAdd(LayerOut(InitialWeight(sk_config.n_splits, sk_config.n_splits),
                            sk_ret'.input),
                   Bilinear(sk_ret'.input,
                            [i \in 1..Len(sk_ret'.input) |->
                               sk_lora_a[sk_ret'.weights.b[i] + 1]],
                            [i \in 1..Len(sk_ret'.input) |->
                               sk_lora_b[sk_ret'.weights.b[i] + 1]],
                            sk_config.scaling))]_vars

\* a step that is an add_skill call on an adapter whose n_skills equals the
\* first dimension of its factors
AddSkillStep ==
  /\ sk_calls' = sk_calls + 1
  /\ sk_ret' # None
  /\ sk_ret'.op = "add_skill"
  /\ Len(sk_lora_a) = sk_n_skills
  /\ Len(sk_lora_b) = sk_n_skills

\* C28: after every add_skill call, whether it returns or raises, n_skills
\* equals the first dimension of lora_a and of lora_b; on success the
\* skills stored before are unchanged and the new last skill holds the
\* given adapter's factors.
C28_AddSkillKeepsCount ==
  [][AddSkillStep =>
       /\ Len(sk_lora_a') = sk_n_skills'
       /\ Len(sk_lora_b') = sk_n_skills'
       /\ sk_ret'.status = "ok" =>
            /\ sk_n_skills' = sk_n_skills + 1
            /\ SubSeq(sk_lora_a', 1, sk_n_skills) = sk_lora_a
            /\ SubSeq(sk_lora_b', 1, sk_n_skills) = sk_lora_b
            /\ \E lora \in GivenLoras(sk_config.n_splits) :
                 /\ sk_lora_a'[sk_n_skills'] = lora.lora_a
                 /\ sk_lora_b'[sk_n_skills'] = lora.lora_b]_vars

(***************************************************************************)
(* Properties of TiesMerge.merge_param                                     *)
(***************************************************************************)
\* a finished, successful TiesMerge call
TiesReturned ==
  /\ result.kind = "result"
  /\ transform_config.kind = "ties_merge"
  /\ result.status = "ok"

\* the value of expert e at element n of key k after the trim: zero exactly
\* when its magnitude is below the threshold of expert e
TrimmedAt(k, n) ==
  [e \in 1..Len(library) |->
     IF RLess(RAbs(ValuesAt(k, n)[e]), result.per_exp_th[e])
       THEN R(0) ELSE ValuesAt(k, n)[e]]

TrimmedSum(k, n) == SumOver(1..Len(library), TrimmedAt(k, n))

\* the experts whose trimmed value has the sign of the trimmed sum
Elected(k, n) ==
  {e \in 1..Len(library) : RSign(TrimmedAt(k, n)[e]) = RSign(TrimmedSum(k, n))}

\* C22: merge_param gives, with only_sparsify=False, the sum of the trimmed
\* values whose sign is the sign of the trimmed sum divided by max(1, their
\* number), and 0 where the trimmed sum is zero; with only_sparsify=True the
\* sum of the trimmed values divided by the number of experts. The trim
\* zeroes exactly the values whose magnitude is below the expert's threshold.
C22_MergeParamElectsSign ==
  TiesReturned =>
    \A k \in DOMAIN library[1].expert_weights :
      \A n \in 1..TensorLen :
        result.value.expert_weights[k][n] =
          IF transform_config.only_sparsify
            THEN RDiv(TrimmedSum(k, n), R(Len(library)))
          ELSE IF RSign(TrimmedSum(k, n)) = 0 THEN R(0)
          ELSE LET count == Cardinality(Elected(k, n))
               IN  RDiv(SumOver(Elected(k, n), TrimmedAt(k, n)),
                        R(IF count < 1 THEN 1 ELSE count))

\* top_k = 0.5 trims one value of each expert: on lora_a the first expert's
\* value is zeroed and the second's alone is elected
C22_Witness ==
  /\ TiesReturned
  /\ ~transform_config.only_sparsify
  /\ transform_config.top_k = <<1, 2>>
  /\ Len(library) = 2
  /\ DOMAIN library[1].expert_weights = AllKeys
  /\ ValuesAt("layer.lora_a", 1) = <<R(0 - 1), R(2)>>
  /\ ValuesAt("layer.lora_b", 1) = <<R(2), R(0 - 1)>>
  /\ TrimmedAt("layer.lora_a", 1) = <<R(0), R(2)>>
  /\ result.value.expert_weights["layer.lora_a"][1] = R(2)
  /\ result.value.expert_weights["layer.lora_b"][1] = R(2)

(***************************************************************************)
(* Properties of ArrowTransform's prototypes                               *)
(***************************************************************************)
\* C21: a call that records a prototype, and every prototype the library
\* holds, comes from a vector for which both checks passed: the ratio of
\* W^T W v to value * v is within 1e-3 of one, and W^T W v is at least as
\* long as W^T W bottom_vector; a failed check halts the call.
C21_PrototypeOnlyAfterBothChecks ==
  (ar_ret.kind = "transform" /\ ar_ret.computed) =>
     IF ar_ret.allclose /\ ar_ret.is_top
       THEN ar_ret.status = "ok"
       ELSE ar_ret.status # "ok" /\ ar_vectors = {}

(***************************************************************************)
(* Properties of ArrowTransform's cache                                    *)
(***************************************************************************)
\* the experts with a cached entry under the protos data type
CachedProtos(st) == GetAuxiliaryData(st, FetchType("arrow"))

\* what transform(recompute=False) has to do on store st: compute the
\* experts without cached protos, return an entry for every expert and,
\* with persist, write the three data types for the computed experts
ArrowCacheContract(st, persist, res) ==
  LET all == NamesAt(Positions(Len(pt_library)))
      missing == all \ CachedProtos(st)
  IN  /\ res.status = "ok"
      /\ res.computed = missing
      /\ all \subseteq res.returned
      /\ persist =>
           /\ \A n \in missing : \A j \in 1..Len(DataTypes("arrow")) :
                \E e \in res.store :
                  /\ e.data_type = DataTypes("arrow")[j]
                  /\ e.expert_name = n
           /\ \A e \in res.store \ st : e.expert_name \in missing
           /\ \A e \in st : e.expert_name \notin missing => e \in res.store

\* C26: every ArrowTransform.transform(recompute=False) call computes
\* prototypes only for the experts without cached protos, returns an entry
\* for every expert and with persist=True writes vectors, eigvals and protos
\* for exactly those experts; the call that follows then computes nothing
\* and returns prototypes for every expert. Calls rejected by an assertion
\* or by the tie_op check are left aside.
C26_ArrowComputesOnlyMissing ==
  [][(/\ pt_transform = "arrow"
      /\ last'.kind = "invocation"
      /\ last'.inv = invocations + 1
      /\ ~last'.recompute
      /\ last'.status \notin {"AssertionError", "NotImplementedError"})
     => /\ ArrowCacheContract(store, last'.persist,
                              [status |-> last'.status,
                               computed |-> last'.computed,
                               returned |-> last'.returned,
                               store |-> store'])
        /\ last'.persist =>
             LET again == ArrowTransform(pt_library, pt_config, store',
                                         Arguments(TRUE, FALSE, 0))
             IN  /\ again.status = "ok"
                 /\ again.computed = {}
                 /\ NamesAt(Positions(Len(pt_library))) \subseteq again.returned
    ]_vars

(***************************************************************************)
(* Properties of MBCWithCosSimTransform                                    *)
(***************************************************************************)
\* C25: MBCWithCosSimTransform.transform(recompute=True) recomputes the
\* embeddings of every expert from the current weights even when a complete
\* set of cached embeddings exists, and builds the clusters it returns from
\* the freshly computed embeddings.
C25_MBCRecomputes ==
  [][(/\ calls' = calls + 1
      /\ outcome'.kind = "call"
      /\ outcome'.op = "mbc"
      /\ outcome'.recompute
      /\ outcome'.status = "ok")
     => /\ outcome'.computed = DOMAIN lib_experts
        /\ outcome'.value = [n \in DOMAIN lib_experts |-> Payload(n)]]_vars

(***************************************************************************)
(* Properties of merge_with_layer on the adapters of a list                *)
(***************************************************************************)
\* a step in which merged_with_layer of loras[i] becomes true
MergedFlagSet(i) ==
  /\ i \in 1..Len(par_loras')
  /\ ~par_loras[i].merged_with_layer
  /\ par_loras'[i].merged_with_layer

\* C29: merged_with_layer becomes true only in a merge_with_layer call that
\* adds the adapter's delta to the weight of its layer; a call that raises
\* before the weight is updated leaves merged_with_layer false, so that
\* forward goes on applying the adapter term.
C29_MergedOnlyIfDeltaAdded ==
  [][\A i \in 1..Len(par_loras) :
       MergedFlagSet(i) =>
         /\ ~(par_ret'.kind = "merge" /\ par_ret'.status # "ok")
         /\ par_weights'[par_loras[i].layer] =
              par_weights[par_loras[i].layer]
                + par_loras[i].lora_a[1] * par_loras[i].lora_b[1]
                    * par_loras[i].scaling]_vars

(***************************************************************************)
(* Properties of adapter views                                             *)
(***************************************************************************)
\* C27: once views exist (the LoRAs made by to_loras, or the SkilledLoRA
\* made by from_loras), after every later operation on the parent or on a
\* view each LoRA's lora_a and lora_b equal the slice of the SkilledLoRA's
\* current factors at its position, so that an in-place change on either
\* side is visible on the other.
C27_ViewsAliasParents ==
  vw_mode \in {"to_loras", "from_loras"} =>
    \A j \in 1..Len(vw_loras) :
      /\ Deref(vw_heap, vw_loras[j].a)
           = Deref(vw_heap, TensorRef(vw_skilled.a, j))
      /\ Deref(vw_heap, vw_loras[j].b)
           = Deref(vw_heap, TensorRef(vw_skilled.b, j))

====
